---- MODULE Spec2Model ----
(***************************************************************************)
(* Session and topology orchestrator of bbb-webrtc-sfu (mcs-core):         *)
(* MediaController, Room and MCSRouter as a state machine.                 *)
(*                                                                         *)
(* Every handler is cut at its awaits on the media server: the part before *)
(* the first await is one action, each continuation is another, and the    *)
(* handlers in flight are the records of ops.  A media unit is identified  *)
(* with the media session that owns it (one unit per session).             *)
(* MediaFactory's own session index is not part of the state.              *)
(***************************************************************************)
EXTENDS Integers, Sequences, FiniteSets, TLC

\* ---------------------------------------------------------------- bounds
NumRooms == 2
NumUsers == 3
MaxSessions == 3
MaxPublished == 2
MaxMcuSessions == 2
NumClients == 1
MaxInflight == 2
MaxSubs == 1
MaxCalls == 3
MaxPending == 2
NumHosts == 2
MaxPipelines == 2
MaxElements == 5
MaxCreated == 4
MaxEndpoints == 3
MaxAdapterCalls == 2
MaxDigits == 4

\* room.js: const MAX_PREVIOUS_FLOORS
MAX_PREVIOUS_FLOORS == 10

RoomIds == 1..NumRooms
\* The room of the specifications whose calls are all made on one room
OneRoom == {1}
UserIds == 1..NumUsers
\* ids of the sessions the users create, and of the MCU sessions of the rooms
UserSessionIds == 1..MaxSessions
McuSessionIds == (MaxSessions + 1)..(MaxSessions + MaxMcuSessions)
SessionIds == UserSessionIds \cup McuSessionIds
ClientIds == 1..NumClients

\* null / undefined
None == 0

\* C.USERS
UserTypes == {"SFU", "MCU"}
\* room.js: const DEFAULT_MEDIA_SESSION_NAME
DEFAULT_MEDIA_SESSION_NAME == "default"
SessionNames == {DEFAULT_MEDIA_SESSION_NAME, "custom"}

NoRoom == [live |-> FALSE]
NoUser == [live |-> FALSE]
NoSession == [live |-> FALSE]

VARIABLES
  rooms,           \* MediaController.rooms: room id -> Room object (NoRoom: not indexed)
  users,           \* MediaController.users: the ids of the indexed User objects
  userObjs,        \* the User objects: user id -> [roomId, type, mediaSessions]
  mediaSessions,   \* MediaController.mediaSessions: ids of the indexed sessions
  medias,          \* MediaController.medias: indexed media units, by owning session
  sessions,        \* the MediaSession objects: id -> [kind, userId, roomId, name, video, status]
  nextId,          \* the id of the next session a user creates
  nextMcuId,       \* the id of the next MCU session
  nextUserId,      \* the id of the next User object
  connected,       \* the connect calls the last step made, as <<source, sink>>
  ops,             \* the handlers suspended at an await
  userSessions,    \* MCSRouter: client.userSessions, per client
  clientEventMap,  \* MCSRouter.clientEventMap: <<eventName, identifier, client>>
  listeners,       \* ids of the rooms whose MEDIA_DISCONNECTED callbacks are registered
  emitted,         \* the events the last step emitted on GLOBAL_EVENT_EMITTER, in order
  reply,           \* what the last step settled: a handler's promise, or NoReply
  sdp,             \* one SDPSession object (NoSdp: not constructed)
  sdpOps,          \* the calls on that session suspended at an await
  sdpOut,          \* what the last step settled on that session, or NoReply
  kms,             \* the Kurento adapter: pipelines, pipeline promises, elements, ...
  kmsOps,          \* the adapter calls suspended at an await or at an event
  kmsOut,          \* the backend calls and the events of the last adapter step
  dtmf,            \* the DTMF queue and timer of one SDPSession, and its commands
  dtmfOut,         \* the adapter operations the last DTMF step called
  offer,           \* the kinds of the remote offer, in the order of its sections
  link,            \* one _connect or _disconnect call of the adapter (NoLink: none)
  index            \* the controller's index of sessions as a list, and their events

\* The controller and the router
ctlVars == <<rooms, users, userObjs, mediaSessions, medias, sessions, nextId,
             nextMcuId, nextUserId, connected, ops, userSessions, clientEventMap,
             listeners, emitted, reply>>
\* The SDP session
sdpVars == <<sdp, sdpOps, sdpOut>>
\* The Kurento adapter
kmsVars == <<kms, kmsOps, kmsOut>>

\* The DTMF commands of a session
dtmfVars == <<dtmf, dtmfOut>>

\* The section order of the remote offer
offerVars == <<offer>>

\* The connection of two elements of one host
linkVars == <<link>>

\* The index of media sessions and the events of its sessions
indexVars == <<index>>

vars == <<ctlVars, sdpVars, kmsVars, dtmfVars, offerVars, linkVars, indexVars>>

\* What a handler of the controller or of the router leaves alone
otherVars == <<sdpVars, kmsVars, dtmfVars, offerVars, linkVars, indexVars>>

NoReply == [op |-> "none"]

\* No SDPSession constructed yet
NoSdp == [live |-> FALSE]
NoDtmf == [live |-> FALSE]
NoLink == [live |-> FALSE]

\* --------------------------------------------- kurento.js (the adapter)
\* The media servers the balancer knows
HostIds == 1..NumHosts

\* The pipelines and the elements the media servers create
PipelineIds == 1..MaxPipelines
ElementIds == 1..MaxElements

\* The types of element the adapter creates: endpoints, the mixer of an MCU
\* session, the hub ports and GStreamer filters of a mixer, and the RTP
\* endpoints that carry a stream from one host to another
ElementTypes == {"WebRtcEndpoint", "Composite", "HubPort", "GStreamerFilter",
                 "RtpEndpoint"}

\* The key of _mediaPipelines and of _pipelinePromises
PipelineKeys == RoomIds \X HostIds

\* No pipeline, and a pipeline as _createMediaPipeline returns it: live tells
\* whether the media server still has it ("live"), was asked to release it
\* ("releasing"), released it ("released") or went offline with it ("lost");
\* transposers maps host.id + element.id of a source to the sink-side RTP
\* endpoint
NoPipeline == [made |-> FALSE]
NewPipeline(room, host) ==
  [made |-> TRUE, room |-> room, host |-> host, activeElements |-> 0,
   state |-> "live", transposers |-> {}]

\* No element, and an element as the media server returns it; owned tells
\* whether it has the `transposers` field that _createElement sets, transposers
\* maps a sink host to the source-side RTP endpoint (None for the {} put there
\* while it is being created), hubPorts are the hub ports of a mixer and
\* mediaFilter, mediaFilterCaps the filters of a hub port
NoElement == [made |-> FALSE]
NewElement(type, pipeline, host) ==
  [made |-> TRUE, type |-> type, pipeline |-> pipeline, host |-> host,
   owned |-> FALSE, transposers |-> {}, hubPorts |-> {},
   mediaFilter |-> None, mediaFilterCaps |-> None]

\* Kurento constructor: _mediaPipelines, _pipelinePromises, _mediaElements (in
\* the order of its keys) and _transposingQueue; pipes and elems are the
\* objects of the media servers, and streams the stream counters of the
\* balancer the adapter is given, counted from their value at construction
NewAdapter ==
  [mediaPipelines |-> [k \in PipelineKeys |-> None],
   pipelinePromises |-> {},
   mediaElements |-> <<>>,
   transposingQueue |-> {},
   streams |-> [h \in HostIds |-> 0],
   pipes |-> [p \in PipelineIds |-> NoPipeline],
   elems |-> [e \in ElementIds |-> NoElement]]


\* ------------------------------------------------------------ room.js
\* Room constructor
NewRoom ==
  [live |-> TRUE, users |-> {}, mediaSessions |-> {},
   conferenceFloor |-> None, previousConferenceFloors |-> <<>>,
   contentFloor |-> None, previousContentFloors |-> <<>>]

Min(a, b) == IF a < b THEN a ELSE b

Without(seq, id) == SelectSeq(seq, LAMBDA x : x # id)

\* Room.getContentFloor
getContentFloor(R) ==
  [floor |-> R.contentFloor,
   previousFloor |-> SubSeq(R.previousContentFloors, 1,
                            Min(Len(R.previousContentFloors), MAX_PREVIOUS_FLOORS))]

\* Room.getConferenceFloor
getConferenceFloor(R) ==
  [floor |-> R.conferenceFloor,
   previousFloor |-> SubSeq(R.previousConferenceFloors, 1,
                            Min(Len(R.previousConferenceFloors), MAX_PREVIOUS_FLOORS))]

ContentFloorChanged(r, R) ==
  [type |-> "CONTENT_FLOOR_CHANGED", roomId |-> r, mediaId |-> None,
   floor |-> getContentFloor(R).floor, previousFloor |-> getContentFloor(R).previousFloor]

ConferenceFloorChanged(r, R) ==
  [type |-> "CONFERENCE_FLOOR_CHANGED", roomId |-> r, mediaId |-> None,
   floor |-> getConferenceFloor(R).floor,
   previousFloor |-> getConferenceFloor(R).previousFloor]

Event(t, r, m) ==
  [type |-> t, roomId |-> r, mediaId |-> m, floor |-> None, previousFloor |-> <<>>]

\* A _setPreviousContentFloor that records nothing
setPreviousContentFloorForgets(R) == R

\* Room._setPreviousContentFloor
setPreviousContentFloor(R) ==
  [R EXCEPT !.previousContentFloors =
     <<R.contentFloor>> \o Without(R.previousContentFloors, R.contentFloor)]

\* Room._setPreviousConferenceFloor
setPreviousConferenceFloor(R) ==
  [R EXCEPT !.previousConferenceFloors =
     <<R.conferenceFloor>> \o Without(R.previousConferenceFloors, R.conferenceFloor)]

\* MediaSession.getContentMedia: the content media of the session
getContentMedia(m) == m

\* Room.setContentFloor: the room afterwards
setContentFloor(R, m) ==
  LET R1 == IF /\ R.contentFloor # None
               /\ Len(R.previousContentFloors) > 0
               /\ R.previousContentFloors[1] # R.contentFloor
            THEN setPreviousContentFloor(R)
            ELSE R
  IN [R1 EXCEPT !.contentFloor = getContentMedia(m)]

\* A releaseContentFloor that records the floor and keeps it
releaseContentFloorKeeps(R) ==
  IF R.contentFloor # None THEN setPreviousContentFloor(R) ELSE R

\* Room.releaseContentFloor: the room afterwards
releaseContentFloor(R) ==
  IF R.contentFloor # None
  THEN [setPreviousContentFloor(R) EXCEPT !.contentFloor = None]
  ELSE R

\* Room.releaseContentFloor: the events it emits
releaseContentFloorEvents(r, R) ==
  IF R.contentFloor # None
  THEN <<ContentFloorChanged(r, releaseContentFloor(R))>>
  ELSE <<>>

\* Room.releaseConferenceFloor: the room afterwards
releaseConferenceFloor(R) ==
  IF R.conferenceFloor # None
  THEN [setPreviousConferenceFloor(R) EXCEPT !.conferenceFloor = None]
  ELSE R

\* Room.releaseConferenceFloor: the events it emits
releaseConferenceFloorEvents(r, R) ==
  IF R.conferenceFloor # None
  THEN <<ConferenceFloorChanged(r, releaseConferenceFloor(R))>>
  ELSE <<>>

\* A clearContentFloor that releases the floor whatever media disconnected
clearContentFloorAlways(R, mediaId, mediaSessionId) ==
  [releaseContentFloor(R) EXCEPT !.previousContentFloors = Without(@, mediaId)]

\* Room._trackContentMediaDisconnection: clearContentFloor, the room afterwards
clearContentFloor(R, mediaId, mediaSessionId) ==
  LET floor == getContentFloor(R).floor
      R1 == IF floor # None /\ (mediaId = floor \/ mediaSessionId = floor)
            THEN releaseContentFloor(R)
            ELSE R
  IN [R1 EXCEPT !.previousContentFloors = Without(@, mediaId)]

\* Room._trackContentMediaDisconnection: clearContentFloor, the events it emits
clearContentFloorEvents(r, R, mediaId, mediaSessionId) ==
  LET floor == getContentFloor(R).floor
  IN IF floor # None /\ (mediaId = floor \/ mediaSessionId = floor)
     THEN releaseContentFloorEvents(r, R)
     ELSE <<>>

\* Room._trackConferenceMediaDisconnection: clearConferenceFloor, the room afterwards
\* (the callback reads getContentFloor)
clearConferenceFloor(R, mediaId, mediaSessionId) ==
  LET floor == getContentFloor(R).floor
      R1 == IF floor # None /\ (mediaId = floor \/ mediaSessionId = floor)
            THEN releaseConferenceFloor(R)
            ELSE R
  IN [R1 EXCEPT !.previousConferenceFloors = Without(@, mediaId)]

\* Room._trackConferenceMediaDisconnection: clearConferenceFloor, the events it emits
clearConferenceFloorEvents(r, R, mediaId, mediaSessionId) ==
  LET floor == getContentFloor(R).floor
  IN IF floor # None /\ (mediaId = floor \/ mediaSessionId = floor)
     THEN releaseConferenceFloorEvents(r, R)
     ELSE <<>>

\* The two MEDIA_DISCONNECTED callbacks of a room, in registration order
onMediaDisconnected(R, mediaId, mediaSessionId) ==
  clearConferenceFloor(clearContentFloor(R, mediaId, mediaSessionId),
                       mediaId, mediaSessionId)

onMediaDisconnectedEvents(r, R, mediaId, mediaSessionId) ==
  clearContentFloorEvents(r, R, mediaId, mediaSessionId)
    \o clearConferenceFloorEvents(r, clearContentFloor(R, mediaId, mediaSessionId),
                                  mediaId, mediaSessionId)

\* Room.getMcuMediaSession / getDefaultMcuMediaSession: the first session of the
\* room named 'default' and of type MCU, or None
getDefaultMcuMediaSession(R) ==
  LET found == {s \in R.mediaSessions :
                  /\ sessions[s].name = DEFAULT_MEDIA_SESSION_NAME
                  /\ sessions[s].kind = "MCU"}
  IN IF found = {} THEN None ELSE CHOOSE s \in found : \A x \in found : s <= x

\* Room.getUsersByType
getUsersByType(R, type) == {u \in R.users : userObjs[u].type = type}

\* Room.getNumberOfMcuUsers
getNumberOfMcuUsers(R) == Cardinality(getUsersByType(R, "MCU"))

\* The sessions of the SFU users of the room, had only the sessions the room
\* holds been collected
getSFUMediaSessionsOfRoom(R) ==
  {s \in R.mediaSessions : sessions[s].kind = "SDP"
                             /\ userObjs[sessions[s].userId].type = "SFU"}

\* Room.getSFUMediaSessions: the sessions of the SFU users of the room
getSFUMediaSessions(R) ==
  UNION {userObjs[u].mediaSessions : u \in getUsersByType(R, "SFU")}

\* Room.removeMediaSessionByName (the name given is not read)
removeMediaSessionByName(R, mediaSessionName) ==
  [R EXCEPT !.mediaSessions =
     {s \in @ : sessions[s].name # DEFAULT_MEDIA_SESSION_NAME}]

\* Room.removeDefaultMcuMediaSession
removeDefaultMcuMediaSession(R) ==
  removeMediaSessionByName(R, DEFAULT_MEDIA_SESSION_NAME)

\* Room.addMediaSession
roomAddMediaSession(R, s) == [R EXCEPT !.mediaSessions = @ \cup {s}]

\* Room.removeMediaSession (the second definition of the class, which is the
\* one in force)
roomRemoveMediaSession(R, s) ==
  IF s # None /\ s \in R.mediaSessions
  THEN [R EXCEPT !.mediaSessions = @ \ {s}]
  ELSE R

\* Room.addUser
addUser(R, u) == [R EXCEPT !.users = @ \cup {u}]

\* Room.destroyUser: the room afterwards
destroyUser(R, u) == [R EXCEPT !.users = @ \ {u}]

\* Room.destroyUser: whether it emits ROOM_EMPTY
destroyUserEmpties(R, u) == u \in R.users /\ R.users \ {u} = {}

\* ------------------------------------------------ media sessions and users
\* MediaSession constructor (SDPSession, MCUSession): a session built without
\* options.name is named 'default', which is how Room finds the MCU session
NewSession(kind, u, r, name, video) ==
  [live |-> TRUE, kind |-> kind, userId |-> u, roomId |-> r, name |-> name,
   video |-> video, status |-> "starting"]

\* User constructor
NewUser(r, type) == [live |-> TRUE, roomId |-> r, type |-> type, mediaSessions |-> {}]

\* MediaSession.sessionStarted
sessionStarted(sess, s) ==
  IF sess[s].status = "starting" THEN [sess EXCEPT ![s].status = "started"] ELSE sess

\* MediaSession.stop of session s: the session is stopped and MEDIA_DISCONNECTED
\* is emitted for it, which runs the callbacks of the room of that id
stopSession(s, rms, sess) ==
  IF sess[s].status = "stopped"
  THEN [rooms |-> rms, sessions |-> sess, events |-> <<>>]
  ELSE LET r == sess[s].roomId
           handled == r \in listeners /\ rms[r].live
       IN [rooms |-> IF handled
                     THEN [rms EXCEPT ![r] = onMediaDisconnected(@, s, s)]
                     ELSE rms,
           sessions |-> [sess EXCEPT ![s].status = "stopped"],
           events |-> <<Event("MEDIA_DISCONNECTED", r, s)>>
                        \o (IF handled
                            THEN onMediaDisconnectedEvents(r, rms[r], s, s)
                            ELSE <<>>)]

\* MediaSession.stop is called on session s and has not returned
stopBegins(sess, s) ==
  IF sess[s].status = "stopped" THEN sess ELSE [sess EXCEPT ![s].status = "stopping"]

RECURSIVE stopAll(_, _, _)
\* User.leave: every owned session is stopped, one after the other
stopAll(S, rms, sess) ==
  IF S = {}
  THEN [rooms |-> rms, sessions |-> sess, events |-> <<>>]
  ELSE LET s == CHOOSE x \in S : \A y \in S : x <= y
           one == stopSession(s, rms, sess)
           rest == stopAll(S \ {s}, one.rooms, one.sessions)
       IN [rooms |-> rest.rooms, sessions |-> rest.sessions,
           events |-> one.events \o rest.events]

\* A User object nobody refers to any more is gone
collectUsers(uo, idx, rms) ==
  [u \in UserIds |->
     IF u \in idx \/ \E r \in RoomIds : rms[r].live /\ u \in rms[r].users
     THEN uo[u]
     ELSE NoUser]

\* The user's map of sessions, while the User object exists
userAddSession(uo, u, s) ==
  IF uo[u].live THEN [uo EXCEPT ![u].mediaSessions = @ \cup {s}] ELSE uo

userRemoveSessions(uo, u, S) ==
  IF uo[u].live THEN [uo EXCEPT ![u].mediaSessions = @ \ S] ELSE uo

\* --------------------------------------------------- handlers in flight
Op(kind, phase, r, u, s, src, killed, via) ==
  [kind |-> kind, phase |-> phase, rid |-> r, uid |-> u,
   sid |-> s, src |-> src, killed |-> killed, via |-> via, utype |-> "",
   dead |-> NoRoom]

\* The Room object a suspended handler holds: the indexed one, or the one that
\* was removed from the index while the handler was suspended
OpRoom(op) == IF op.dead.live THEN op.dead ELSE rooms[op.rid]

\* A Room object removed from the index, as the handlers that hold it read it:
\* its users and its MCU sessions
removedRoom(R) ==
  [NewRoom EXCEPT !.users = R.users,
                  !.mediaSessions = {s \in R.mediaSessions : sessions[s].kind = "MCU"}]

\* The handlers that hold room r keep the removed object
keepRemovedRoom(os, r, R) ==
  {IF o.rid = r /\ ~o.dead.live THEN [o EXCEPT !.dead = removedRoom(R)] ELSE o :
     o \in os}

LeaveReply(r, u, ok, sync, via) ==
  [op |-> "leave", rid |-> r, uid |-> u, ok |-> ok, sync |-> sync, via |-> via]

\* ------------------------------------------------------ mcs-router.js
\* The events the router dispatches by room id
RoomEvents ==
  {"MEDIA_CONNECTED", "USER_JOINED", "USER_LEFT", "ROOM_DESTROYED",
   "CONTENT_FLOOR_CHANGED", "CONFERENCE_FLOOR_CHANGED"}

\* MCSRouter._removeEventFromClientEventMap
removeEventFromClientEventMap(map, identifier, eventName) ==
  {e \in map : ~(e[1] = eventName /\ e[2] = identifier)}

\* The ROOM_DESTROYED callback, had it dropped the ROOM_DESTROYED subscriptions
\* only
onRoomDestroyedKeeps(map, roomId) ==
  removeEventFromClientEventMap(map, roomId, "ROOM_DESTROYED")

\* MCSRouter._dispatchEvents: the ROOM_DESTROYED callback
onRoomDestroyed(map, roomId) ==
  LET m1 == removeEventFromClientEventMap(map, roomId, "MEDIA_CONNECTED")
      m2 == removeEventFromClientEventMap(m1, roomId, "USER_JOINED")
      m3 == removeEventFromClientEventMap(m2, roomId, "USER_LEFT")
      m4 == removeEventFromClientEventMap(m3, roomId, "ROOM_DESTROYED")
      m5 == removeEventFromClientEventMap(m4, roomId, "CONTENT_FLOOR_CHANGED")
  IN removeEventFromClientEventMap(m5, roomId, "CONFERENCE_FLOOR_CHANGED")

\* MCSRouter._removeClientFromEventMap
removeClientFromEventMap(map, c) == {e \in map : e[3] # c}

\* ------------------------------------------------- media-controller.js
\* MediaController.removeRoom: the callbacks Room.destroy leaves registered
removeRoomListeners(ls, r) == ls \ {r}

\* MediaController.removeRoom: the ROOM_DESTROYED events it emits
removeRoomEvents(r) == <<Event("ROOM_DESTROYED", r, None)>>

\* MediaController.removeRoom: the index afterwards
removeRoom(rms, r) == [rms EXCEPT ![r] = NoRoom]

\* MediaController.removeMediaSession, for each of the ids: the index afterwards
removeMediaSessions(idx, S) == idx \ S

\* MediaController.leave: getRoom or getUser throws
leaveLookupFails(r, u) == ~rooms[r].live \/ u \notin users

\* A leave whose lookup failed, had the catch rejected the call instead
leaveNotFoundRejects(r, u, via) == LeaveReply(r, u, FALSE, TRUE, via)

\* MediaController.leave: the catch of the lookup resolves the call
leaveNotFound(r, u, via) == LeaveReply(r, u, TRUE, TRUE, via)

\* MediaController.leave, up to the await of user.leave(): the handler in flight
leaveBegin(r, u, via) ==
  Op("leave", 1, r, u, None, None, userObjs[u].mediaSessions, via)

\* The sessions that are indexed where their number is bounded
IndexedIds == 1..MaxPublished

\* A session as user.publish() returns it: its type, its negotiation role and
\* its flag shouldProcessRemoteDescriptorAsAnswerer; remote tells whether it
\* has a remote descriptor, calls counts the calls of addMediaSession with it
NoIndexed == [made |-> FALSE]
NewIndexed(type, role) ==
  [made |-> TRUE, type |-> type, negotiationRole |-> role,
   shouldProcessRemoteDescriptorAsAnswerer |-> FALSE,
   remote |-> role = "ANSWERER", removed |-> FALSE, calls |-> 0]

\* MediaController.mediaSessions in its order, the sessions, the listeners
\* that GLOBAL_EVENT_EMITTER holds once for MEDIA_NEGOTIATED:id, and the
\* number of MEDIA_NEGOTIATED:id and of MEDIA_CONNECTED emitted for each id
NewIndex ==
  [mediaSessions |-> <<>>,
   session |-> [s \in IndexedIds |-> NoIndexed],
   once |-> <<>>,
   negotiated |-> [s \in IndexedIds |-> 0],
   connected |-> [s \in IndexedIds |-> 0]]


\* What a step that emits nothing, settles no leave and connects nothing leaves
NoOutput == emitted' = <<>> /\ reply' = NoReply /\ connected' = {}

Init ==
  /\ rooms = [r \in RoomIds |-> NoRoom]
  /\ users = {}
  /\ userObjs = [u \in UserIds |-> NoUser]
  /\ mediaSessions = {}
  /\ medias = {}
  /\ sessions = [s \in SessionIds |-> NoSession]
  /\ nextId = 1
  /\ nextMcuId = MaxSessions + 1
  /\ nextUserId = 1
  /\ connected = {}
  /\ ops = {}
  /\ userSessions = [c \in ClientIds |-> {}]
  /\ clientEventMap = {}
  /\ listeners = {}
  /\ emitted = <<>>
  /\ reply = NoReply
  /\ sdp = NoSdp
  /\ sdpOps = {}
  /\ sdpOut = NoReply
  /\ kms = NewAdapter
  /\ kmsOps = {}
  /\ kmsOut = {}
  /\ dtmf = NoDtmf
  /\ dtmfOut = {}
  /\ offer = <<>>
  /\ link = NoLink
  /\ index = NewIndex

\* MediaController.join (createRoom, createUser, Room.addUser): u is the id of
\* an indexed user, which createUser returns as it is, or that of a new User
join(r, type, u) ==
  /\ u \in users \/ (u = nextUserId /\ u \in UserIds)
  /\ rooms' = [rooms EXCEPT
                 ![r] = addUser(IF rooms[r].live THEN rooms[r] ELSE NewRoom, u)]
  /\ listeners' = listeners \cup {r}
  /\ users' = users \cup {u}
  /\ userObjs' = [userObjs EXCEPT
                    ![u] = IF u \in users THEN userObjs[u] ELSE NewUser(r, type)]
  /\ nextUserId' = IF u \in users THEN nextUserId ELSE nextUserId + 1
  /\ NoOutput
  /\ UNCHANGED <<mediaSessions, medias, sessions, nextId, nextMcuId, ops,
                 clientEventMap>>

\* MediaController.join, called on the controller
Join(r, type, u) == join(r, type, u) /\ UNCHANGED userSessions

\* MCSRouter: the client's 'join' handler, which records the user it joined
ClientJoin(c, r, type, u) ==
  /\ join(r, type, u)
  /\ userSessions' = [userSessions EXCEPT ![c] = @ \cup {<<u, r>>}]

\* MCSRouter 'leave' -> MediaController.leave, up to the await of user.leave()
Leave(r, u) ==
  /\ IF leaveLookupFails(r, u)
     THEN /\ reply' = leaveNotFound(r, u, "api")
          /\ ops' = ops
     ELSE /\ leaveBegin(r, u, "api") \notin ops
          /\ Cardinality(ops) < MaxInflight
          /\ reply' = NoReply
          /\ ops' = ops \cup {leaveBegin(r, u, "api")}
  /\ emitted' = <<>>
  /\ connected' = {}
  /\ UNCHANGED <<rooms, users, userObjs, mediaSessions, medias, sessions, nextId,
                 nextMcuId, nextUserId, userSessions, clientEventMap, listeners>>

\* MediaController.leave, from the return of user.leave() to the await of the
\* MCU session's stop (or to the end)
LeaveResume(op) ==
  /\ op \in ops /\ op.kind = "leave" /\ op.phase = 1
  /\ LET st == stopAll(op.killed, rooms, sessions)
         R0 == IF op.dead.live THEN op.dead ELSE st.rooms[op.rid]
         R1 == destroyUser(R0, op.uid)
         empties == destroyUserEmpties(R0, op.uid)
         \* ROOM_EMPTY -> MediaController.removeRoom(roomId)
         removes == empties /\ st.rooms[op.rid].live
         rooms1 == IF removes THEN removeRoom(st.rooms, op.rid)
                   ELSE IF op.dead.live THEN st.rooms
                   ELSE [st.rooms EXCEPT ![op.rid] = R1]
         users1 == users \ {op.uid}
         mcu == getDefaultMcuMediaSession(R1)
         needStop == mcu # None /\ getNumberOfMcuUsers(R1) < 1
         others == IF removes THEN keepRemovedRoom(ops \ {op}, op.rid, R1)
                   ELSE ops \ {op}
         next == [op EXCEPT !.phase = 2, !.src = mcu, !.killed = {},
                            !.dead = IF removes \/ op.dead.live THEN removedRoom(R1)
                                     ELSE NoRoom]
     IN /\ rooms' = rooms1
        /\ listeners' = IF removes THEN removeRoomListeners(listeners, op.rid)
                        ELSE listeners
        /\ clientEventMap' = IF removes THEN onRoomDestroyed(clientEventMap, op.rid)
                             ELSE clientEventMap
        /\ users' = users1
        /\ userObjs' = collectUsers(userRemoveSessions(userObjs, op.uid, op.killed),
                                    users1, rooms1)
        /\ mediaSessions' = removeMediaSessions(mediaSessions, op.killed)
        /\ medias' = medias \ op.killed
        /\ sessions' = IF needStop THEN stopBegins(st.sessions, mcu) ELSE st.sessions
        /\ ops' = IF needStop THEN others \cup {next} ELSE others
        /\ emitted' = st.events
                        \o (IF empties THEN <<Event("ROOM_EMPTY", op.rid, None)>>
                            ELSE <<>>)
                        \o (IF removes THEN removeRoomEvents(op.rid) ELSE <<>>)
        /\ reply' = IF needStop THEN NoReply
                    ELSE LeaveReply(op.rid, op.uid, TRUE, FALSE, op.via)
  /\ connected' = {}
  /\ UNCHANGED <<nextId, nextMcuId, nextUserId, userSessions>>

\* MediaController.leave, from the return of the MCU session's stop to the end
LeaveFinish(op) ==
  /\ op \in ops /\ op.kind = "leave" /\ op.phase = 2
  /\ LET st == stopSession(op.src, rooms, sessions)
         R0 == IF op.dead.live THEN op.dead ELSE st.rooms[op.rid]
         R1 == removeDefaultMcuMediaSession(R0)
     IN /\ rooms' = IF op.dead.live THEN st.rooms
                    ELSE [st.rooms EXCEPT ![op.rid] = R1]
        /\ sessions' = st.sessions
        /\ emitted' = st.events
  /\ ops' = ops \ {op}
  /\ reply' = LeaveReply(op.rid, op.uid, TRUE, FALSE, op.via)
  /\ connected' = {}
  /\ UNCHANGED <<users, userObjs, mediaSessions, medias, nextId, nextMcuId,
                 nextUserId, userSessions, clientEventMap, listeners>>

\* MediaController.addMediaSession: the session index afterwards
addMediaSession(idx, s) == idx \cup {s}

\* -------------------------------- media-controller.js (the session index)
\* A controller whose find never finds the session
findsNone(g, s) == FALSE

\* this.mediaSessions.find(ms => ms.id === mediaSession.id)
find(g, s) == \E i \in DOMAIN g.mediaSessions : g.mediaSessions[i] = s

\* GLOBAL_EVENT_EMITTER.emit(MEDIA_NEGOTIATED:id): every listener held once
\* for the id is removed and emits MEDIA_CONNECTED
emitNegotiated(g, s) ==
  LET mine(x) == x = s
      others(x) == x # s
  IN [g EXCEPT !.negotiated[s] = @ + 1,
               !.connected[s] = @ + Len(SelectSeq(g.once, mine)),
               !.once = SelectSeq(@, others)]

\* MediaController.addMediaSession(mediaSession): a session that is not
\* found is pushed; that of an RTP offerer gets a listener held once for its
\* MEDIA_NEGOTIATED, for any other MEDIA_CONNECTED is emitted
addMediaSessionIndexed(g, s) ==
  LET x == g.session[s]
  IN IF find(g, s) THEN g
     ELSE IF x.type = "RtpEndpoint" /\ x.negotiationRole = "OFFERER"
     THEN [g EXCEPT !.mediaSessions = Append(@, s), !.once = Append(@, s)]
     ELSE [g EXCEPT !.mediaSessions = Append(@, s), !.connected[s] = @ + 1]

\* What a step on the index leaves alone
IndexFrame == UNCHANGED <<ctlVars, sdpVars, kmsVars, dtmfVars, offerVars, linkVars>>

\* user.publish() returns a new session; that of an answerer has processed
\* its remote descriptor, and SDPSession.process has emitted its
\* MEDIA_NEGOTIATED
IndexPublished(s, type, role) ==
  /\ s \in IndexedIds
  /\ ~index.session[s].made
  /\ \A t \in 1..(s - 1) : index.session[t].made
  /\ index' = LET g == [index EXCEPT !.session[s] = NewIndexed(type, role)]
              IN IF role = "ANSWERER" THEN emitNegotiated(g, s) ELSE g
  /\ IndexFrame

\* A call of MediaController.addMediaSession with a session that was not
\* removed from the index
IndexAddMediaSession(s) ==
  /\ index.session[s].made
  /\ ~index.session[s].removed
  /\ index.session[s].calls < MaxCalls
  /\ index' = [addMediaSessionIndexed(index, s) EXCEPT !.session[s].calls = @ + 1]
  /\ IndexFrame

\* SDPSession.set remoteDescriptor: a second descriptor asks for a
\* renegotiation; the first one, on an offerer, sets
\* shouldProcessRemoteDescriptorAsAnswerer, whose setter emits
\* MEDIA_NEGOTIATED when it goes from false to true
IndexRemoteDescriptor(s) ==
  LET x == index.session[s]
      raised == ~x.remote /\ x.negotiationRole = "OFFERER"
      g == [index EXCEPT
              !.session[s].remote = TRUE,
              !.session[s].shouldProcessRemoteDescriptorAsAnswerer = @ \/ raised]
  IN /\ x.made
     /\ index' = IF raised /\ ~x.shouldProcessRemoteDescriptorAsAnswerer
                 THEN emitNegotiated(g, s) ELSE g
     /\ IndexFrame

\* SDPSession.process of an offerer's answer: the flag is lowered
IndexProcessed(s) ==
  /\ index.session[s].made
  /\ index.session[s].shouldProcessRemoteDescriptorAsAnswerer
  /\ index' = [index EXCEPT !.session[s].shouldProcessRemoteDescriptorAsAnswerer = FALSE]
  /\ IndexFrame

\* MediaController.removeMediaSession(id): the index is filtered
IndexRemoveMediaSession(s) ==
  LET others(x) == x # s
  IN /\ index.session[s].made
     /\ find(index, s)
     /\ index' = [index EXCEPT !.mediaSessions = SelectSeq(@, others),
                               !.session[s].removed = TRUE]
     /\ IndexFrame

\* MCSRouter 'publish' -> MediaController.publish, up to the await of
\* user.publish(): the user creates the session and starts its negotiation
Publish(u, name, video) ==
  /\ u \in users
  /\ rooms[userObjs[u].roomId].live
  /\ nextId \in UserSessionIds
  /\ Cardinality(ops) < MaxInflight
  /\ sessions' = [sessions EXCEPT
                    ![nextId] = NewSession("SDP", u, userObjs[u].roomId, name, video)]
  /\ userObjs' = userAddSession(userObjs, u, nextId)
  /\ nextId' = nextId + 1
  /\ ops' = ops \cup {Op("publish", 1, userObjs[u].roomId, u, nextId, None, {},
                         "api")}
  /\ NoOutput
  /\ UNCHANGED <<rooms, users, mediaSessions, medias, nextMcuId, nextUserId,
                 userSessions, clientEventMap, listeners>>

\* The session whose negotiation failed is stopped and forgotten by its user
publishFailed(op) ==
  /\ sessions' = [sessions EXCEPT ![op.sid].status = "stopped"]
  /\ userObjs' = userRemoveSessions(userObjs, op.uid, {op.sid})
  /\ ops' = ops \ {op}
  /\ NoOutput
  /\ UNCHANGED <<rooms, users, mediaSessions, medias, nextId, nextMcuId,
                 nextUserId, userSessions, clientEventMap, listeners>>

\* The session user.publish() or user.subscribe() returned is indexed by the
\* controller and by the room the handler holds, and is started
sessionIndexed(op) ==
  /\ mediaSessions' = addMediaSession(mediaSessions, op.sid)
  /\ medias' = medias \cup {op.sid}
  /\ rooms' = IF op.dead.live THEN rooms
              ELSE [rooms EXCEPT ![op.rid] = roomAddMediaSession(@, op.sid)]
  /\ sessions' = sessionStarted(sessions, op.sid)
  /\ ops' = ops \ {op}
  /\ emitted' = <<>>
  /\ reply' = NoReply
  /\ UNCHANGED <<users, userObjs, nextId, nextMcuId, nextUserId, userSessions,
                 clientEventMap, listeners>>

\* MediaController.publish, from the return of user.publish() on
PublishResume(op, ok) ==
  /\ op \in ops /\ op.kind = "publish"
  /\ IF ok
     THEN /\ sessionIndexed(op)
          /\ connected' =
               LET mcu == getDefaultMcuMediaSession(
                            roomAddMediaSession(OpRoom(op), op.sid))
               IN IF mcu # None THEN {<<op.sid, mcu>>} ELSE {}
     ELSE publishFailed(op)

\* MCSRouter 'unpublish' -> MediaController.unpublish, up to the await of
\* user.unpublish(), which stops the session
Unpublish(u, s) ==
  /\ u \in users
  /\ rooms[userObjs[u].roomId].live
  /\ s \in userObjs[u].mediaSessions
  /\ Cardinality(ops) < MaxInflight
  /\ Op("unpublish", 1, userObjs[u].roomId, u, s, None, {}, "api") \notin ops
  /\ ops' = ops \cup {Op("unpublish", 1, userObjs[u].roomId, u, s, None, {}, "api")}
  /\ NoOutput
  /\ UNCHANGED <<rooms, users, userObjs, mediaSessions, medias, sessions, nextId,
                 nextMcuId, nextUserId, userSessions, clientEventMap, listeners>>

\* MediaController.unpublish, from the return of user.unpublish() on:
\* removeMediaSession throws when the session is not indexed, and then
\* room.removeMediaSession is not reached
UnpublishResume(op) ==
  /\ op \in ops /\ op.kind = "unpublish"
  /\ LET st == stopSession(op.sid, rooms, sessions)
         R0 == IF op.dead.live THEN op.dead ELSE st.rooms[op.rid]
         R1 == IF op.sid \in mediaSessions THEN roomRemoveMediaSession(R0, op.sid)
               ELSE R0
     IN /\ rooms' = IF op.dead.live THEN st.rooms
                    ELSE [st.rooms EXCEPT ![op.rid] = R1]
        /\ sessions' = st.sessions
        /\ emitted' = st.events
  /\ userObjs' = userRemoveSessions(userObjs, op.uid, {op.sid})
  /\ mediaSessions' = removeMediaSessions(mediaSessions, {op.sid})
  /\ medias' = medias \ {op.sid}
  /\ ops' = ops \ {op}
  /\ reply' = NoReply
  /\ connected' = {}
  /\ UNCHANGED <<users, nextId, nextMcuId, nextUserId, userSessions,
                 clientEventMap, listeners>>

\* Room.createMediaSession(MCU): the existing default MCU session, or a new one
\* with id s pushed to the room's sessions
createMediaSession(R, s) ==
  IF getDefaultMcuMediaSession(R) # None THEN R ELSE roomAddMediaSession(R, s)

\* MediaController._connectExistingMediaSessionsInMCU: the connect calls it makes
connectExistingMediaSessionsInMCU(R) ==
  IF getDefaultMcuMediaSession(R) = None
  THEN {}
  ELSE {<<s, getDefaultMcuMediaSession(R)>> : s \in getSFUMediaSessions(R)}

\* MCSRouter 'publishAndSubscribe' -> MediaController.publishAndSubscribe, up to
\* its first await on the media server: source.start() when the user is an MCU
\* user and the room has no MCU session yet, user.publish() otherwise
PublishAndSubscribe(u, name, video) ==
  /\ u \in users
  /\ rooms[userObjs[u].roomId].live
  /\ Cardinality(ops) < MaxInflight
  /\ LET r == userObjs[u].roomId
         source == getDefaultMcuMediaSession(rooms[r])
     IN IF source = None /\ userObjs[u].type = "MCU"
        THEN /\ nextMcuId \in McuSessionIds
             /\ sessions' = [sessions EXCEPT
                  ![nextMcuId] = NewSession("MCU", None, r, DEFAULT_MEDIA_SESSION_NAME,
                                            TRUE)]
             /\ rooms' = [rooms EXCEPT ![r] = createMediaSession(@, nextMcuId)]
             /\ nextMcuId' = nextMcuId + 1
             /\ ops' = ops \cup {[Op("pubsub", 1, r, u, None, nextMcuId, {}, "api")
                                      EXCEPT !.utype = userObjs[u].type]}
             /\ UNCHANGED <<userObjs, nextId>>
        ELSE /\ nextId \in UserSessionIds
             /\ sessions' = [sessions EXCEPT
                  ![nextId] = NewSession("SDP", u, r, name, video)]
             /\ userObjs' = userAddSession(userObjs, u, nextId)
             /\ nextId' = nextId + 1
             /\ ops' = ops \cup {[Op("pubsub", 3, r, u, nextId, source, {}, "api")
                                      EXCEPT !.utype = userObjs[u].type]}
             /\ UNCHANGED <<rooms, nextMcuId>>
  /\ NoOutput
  /\ UNCHANGED <<users, mediaSessions, medias, nextUserId, userSessions,
                 clientEventMap, listeners>>

\* publishAndSubscribe, from the return of source.start() and source.process()
\* to the await of the connect calls of _connectExistingMediaSessionsInMCU
PubSubMcuStarted(op, ok) ==
  /\ op \in ops /\ op.kind = "pubsub" /\ op.phase = 1
  /\ IF ok
     THEN /\ sessions' = sessionStarted(sessions, op.src)
          /\ connected' = connectExistingMediaSessionsInMCU(OpRoom(op))
          /\ ops' = (ops \ {op}) \cup {[op EXCEPT !.phase = 2]}
     ELSE /\ ops' = ops \ {op}
          /\ connected' = {}
          /\ UNCHANGED sessions
  /\ emitted' = <<>>
  /\ reply' = NoReply
  /\ UNCHANGED <<rooms, users, userObjs, mediaSessions, medias, nextId, nextMcuId,
                 nextUserId, userSessions, clientEventMap, listeners>>

\* publishAndSubscribe, from the return of _connectExistingMediaSessionsInMCU
\* to the await of user.publish()
PubSubConnected(op, name, video) ==
  /\ op \in ops /\ op.kind = "pubsub" /\ op.phase = 2
  /\ nextId \in UserSessionIds
  /\ sessions' = [sessions EXCEPT
                    ![nextId] = NewSession("SDP", op.uid, op.rid, name, video)]
  /\ userObjs' = userAddSession(userObjs, op.uid, nextId)
  /\ nextId' = nextId + 1
  /\ ops' = (ops \ {op}) \cup {[op EXCEPT !.phase = 3, !.sid = nextId]}
  /\ NoOutput
  /\ UNCHANGED <<rooms, users, mediaSessions, medias, nextMcuId, nextUserId,
                 userSessions, clientEventMap, listeners>>

\* publishAndSubscribe of a type that EMAP does not know, from the return of
\* _connectExistingMediaSessionsInMCU on: the switch falls to its default and
\* the call rejects with MEDIA_INVALID_TYPE
PubSubInvalidType(op) ==
  /\ op \in ops /\ op.kind = "pubsub" /\ op.phase = 2
  /\ ops' = ops \ {op}
  /\ NoOutput
  /\ UNCHANGED <<rooms, users, userObjs, mediaSessions, medias, sessions, nextId,
                 nextMcuId, nextUserId, userSessions, clientEventMap, listeners>>

\* publishAndSubscribe, from the return of user.publish() on: the session is
\* indexed and connected with the source (source.connect(session) for an MCU
\* user, then session.connect(source))
PubSubPublished(op, ok) ==
  /\ op \in ops /\ op.kind = "pubsub" /\ op.phase = 3
  /\ IF ok
     THEN /\ sessionIndexed(op)
          /\ connected' =
               IF op.src = None THEN {}
               ELSE {<<op.sid, op.src>>}
                      \cup (IF op.utype = "MCU" THEN {<<op.src, op.sid>>} ELSE {})
     ELSE publishFailed(op)

\* MCSRouter 'subscribe' -> MediaController.subscribe, up to the await of
\* user.subscribe(); an unknown source rejects the call
Subscribe(u, src, name, video) ==
  /\ u \in users
  /\ rooms[userObjs[u].roomId].live
  /\ src \in mediaSessions
  /\ nextId \in UserSessionIds
  /\ Cardinality(ops) < MaxInflight
  /\ sessions' = [sessions EXCEPT
                    ![nextId] = NewSession("SDP", u, userObjs[u].roomId, name, video)]
  /\ userObjs' = userAddSession(userObjs, u, nextId)
  /\ nextId' = nextId + 1
  /\ ops' = ops \cup {Op("subscribe", 1, userObjs[u].roomId, u, nextId, src, {},
                         "api")}
  /\ NoOutput
  /\ UNCHANGED <<rooms, users, mediaSessions, medias, nextMcuId, nextUserId,
                 userSessions, clientEventMap, listeners>>

\* MediaController.subscribe, from the return of user.subscribe() on
SubscribeResume(op, ok) ==
  /\ op \in ops /\ op.kind = "subscribe"
  /\ IF ok
     THEN sessionIndexed(op) /\ connected' = {}
     ELSE publishFailed(op)

\* MediaController.connect and MediaController.disconnect, their lookups:
\* getMediaSession throws on a session that is not indexed, and connect also
\* calls getUser, which throws on a user that is not indexed
connectLookupFails(what, source, sink) ==
  \/ source \notin mediaSessions
  \/ sink \notin mediaSessions
  \/ /\ what = "connect"
     /\ \/ sessions[source].userId \notin users
        \/ sessions[sink].userId \notin users

\* MediaController.connect resolves at once, connecting nothing, when one of
\* the two users is an MCU user
connectSkipped(what, source, sink) ==
  /\ what = "connect"
  /\ ~connectLookupFails(what, source, sink)
  /\ \/ userObjs[sessions[source].userId].type = "MCU"
     \/ userObjs[sessions[sink].userId].type = "MCU"

\* The sinks for which the controller reaches its await of
\* sourceSession.connect or sourceSession.disconnect
connectAwaited(what, source, sinks) ==
  {k \in sinks : /\ ~connectLookupFails(what, source, k)
                 /\ ~connectSkipped(what, source, k)}

ConnectReply(what, source, sinks, ok) ==
  [op |-> what, src |-> source, sinks |-> sinks, ok |-> ok, via |-> "router"]

\* MCSRouter 'connect' and 'disconnect' -> MCSRouter.connect / disconnect:
\* the controller is called for every sink id, the callback of map returns
\* nothing, so Promise.all is given no promise and resolves, and the client is
\* answered 'connected' or 'disconnected' before any other handler runs
RouterConnect(what, source, sinks) ==
  LET awaited == connectAwaited(what, source, sinks)
  IN /\ sinks # {}
     /\ ops' = ops \cup {Op(what, 1, None, None, k, source, {}, "router") :
                            k \in awaited}
     /\ Cardinality(ops') <= MaxInflight
     /\ connected' = IF what = "connect" THEN {<<source, k>> : k \in awaited} ELSE {}
     /\ reply' = ConnectReply(what, source, sinks, TRUE)
     /\ emitted' = <<>>
     /\ UNCHANGED <<rooms, users, userObjs, mediaSessions, medias, sessions, nextId,
                    nextMcuId, nextUserId, userSessions, clientEventMap, listeners>>

\* MediaController.connect or disconnect, from the return of the session's
\* connect or disconnect on: the promise settles, and nobody holds it
ConnectSettled(op, ok) ==
  /\ op \in ops /\ op.kind \in {"connect", "disconnect"}
  /\ ops' = ops \ {op}
  /\ NoOutput
  /\ UNCHANGED <<rooms, users, userObjs, mediaSessions, medias, sessions, nextId,
                 nextMcuId, nextUserId, userSessions, clientEventMap, listeners>>

\* What a floor call leaves alone
FloorFrame ==
  /\ reply' = NoReply
  /\ connected' = {}
  /\ UNCHANGED <<users, userObjs, mediaSessions, medias, sessions, nextId,
                 nextMcuId, nextUserId, ops, userSessions, clientEventMap, listeners>>

\* MCSRouter 'setContentFloor' -> MediaController.setContentFloor; an unknown
\* room or media rejects the call
SetContentFloor(r, m) ==
  /\ rooms[r].live
  /\ m \in mediaSessions
  /\ rooms' = [rooms EXCEPT ![r] = setContentFloor(@, m)]
  /\ emitted' = <<ContentFloorChanged(r, setContentFloor(rooms[r], m))>>
  /\ FloorFrame

\* Room.setConferenceFloor: the first condition reads this._previousConferenceFloor,
\* which no code assigns, once a floor is set and the history is not empty
setConferenceFloorThrows(R) ==
  R.conferenceFloor # None /\ Len(R.previousConferenceFloors) > 0

\* Room.setConferenceFloor: the sessions of the media's user that hold a video
\* media (a session holds its medias once it is negotiated)
userVideoSessions(m) ==
  {s \in userObjs[sessions[m].userId].mediaSessions :
     sessions[s].video /\ sessions[s].status # "starting"}

\* Room.setConferenceFloor: the media has no video and the room does not know
\* its session or its user, so the look-up dereferences undefined
tentativeFloorThrows(R, m) ==
  ~sessions[m].video /\ (m \notin R.mediaSessions \/ sessions[m].userId \notin R.users)

\* Room.setConferenceFloor: the tentative floor, None when no video is found
tentativeFloor(R, m) ==
  IF sessions[m].video THEN m
  ELSE IF userVideoSessions(m) = {} THEN None
  ELSE CHOOSE s \in userVideoSessions(m) : \A x \in userVideoSessions(m) : s <= x

\* Room.setConferenceFloor: the room afterwards
setConferenceFloor(R, m) ==
  IF setConferenceFloorThrows(R) \/ tentativeFloorThrows(R, m)
  THEN R
  ELSE IF tentativeFloor(R, m) = None THEN R
  ELSE [R EXCEPT !.conferenceFloor = tentativeFloor(R, m)]

\* Room.setConferenceFloor: the events it emits
setConferenceFloorEvents(r, R, m) ==
  IF setConferenceFloorThrows(R) \/ tentativeFloorThrows(R, m)
  THEN <<>>
  ELSE IF tentativeFloor(R, m) = None THEN <<>>
  ELSE <<ConferenceFloorChanged(r, setConferenceFloor(R, m))>>

\* MCSRouter 'setConferenceFloor' -> MediaController.setConferenceFloor
SetConferenceFloor(r, m) ==
  /\ rooms[r].live
  /\ m \in mediaSessions
  /\ rooms' = [rooms EXCEPT ![r] = setConferenceFloor(@, m)]
  /\ emitted' = setConferenceFloorEvents(r, rooms[r], m)
  /\ FloorFrame

\* MCSRouter 'releaseContentFloor' -> MediaController.releaseContentFloor
ReleaseContentFloor(r) ==
  /\ rooms[r].live
  /\ rooms' = [rooms EXCEPT ![r] = releaseContentFloor(@)]
  /\ emitted' = releaseContentFloorEvents(r, rooms[r])
  /\ FloorFrame

\* MCSRouter 'releaseConferenceFloor' -> MediaController.releaseConferenceFloor
ReleaseConferenceFloor(r) ==
  /\ rooms[r].live
  /\ rooms' = [rooms EXCEPT ![r] = releaseConferenceFloor(@)]
  /\ emitted' = releaseConferenceFloorEvents(r, rooms[r])
  /\ FloorFrame

\* MCSRouter._addToClientEventMap
addToClientEventMap(map, identifier, eventName, c) ==
  map \cup {<<eventName, identifier, c>>}

\* MCSRouter 'onEvent': the client subscribes to a per-room event
OnEvent(c, eventName, r) ==
  /\ Cardinality(addToClientEventMap(clientEventMap, r, eventName, c)) <= MaxSubs
  /\ clientEventMap' = addToClientEventMap(clientEventMap, r, eventName, c)
  /\ NoOutput
  /\ UNCHANGED <<rooms, users, userObjs, mediaSessions, medias, sessions, nextId,
                 nextMcuId, nextUserId, ops, userSessions, listeners>>

\* MCSRouter._disconnectAllClientSessions: the leave handlers it starts, one per
\* entry of client.userSessions whose room and user are still indexed
disconnectAllClientSessions(c) ==
  {leaveBegin(e[2], e[1], "close") :
     e \in {x \in userSessions[c] : ~leaveLookupFails(x[2], x[1])}}

\* The client's transport emits 'close' or 'error'
ClientClose(c) ==
  /\ Cardinality(ops \cup disconnectAllClientSessions(c)) <= MaxInflight
  /\ clientEventMap' = removeClientFromEventMap(clientEventMap, c)
  /\ ops' = ops \cup disconnectAllClientSessions(c)
  /\ userSessions' = [userSessions EXCEPT ![c] = {}]
  /\ NoOutput
  /\ UNCHANGED <<rooms, users, userObjs, mediaSessions, medias, sessions, nextId,
                 nextMcuId, nextUserId, listeners>>

\* ------------------------------------------------------ sdp-session.js
\* The media kinds of a session description: its audio, main video and content
\* (a=content:slides) sections
Kinds == {"audio", "video", "content"}

\* The order in which _defileAndProcess negotiates them
KindOrder == <<"audio", "video", "content">>

\* A session description is the non-empty set of the kinds it has a section
\* for; NoDescriptor is null
NoDescriptor == {}
Descriptors == (SUBSET Kinds) \ {NoDescriptor}

\* A local descriptor is the header of one unit followed by the sections of
\* units (getAnswer); NoLocal is undefined
NoLocal == <<>>

NEGOTIATION_ROLE == [OFFERER |-> "offerer", ANSWERER |-> "answerer"]
MEDIA_TYPE == [WEBRTC |-> "WebRtcEndpoint", RTP |-> "RtpEndpoint"]

\* What a call on the adapter comes back with: a rejection, an empty list of
\* units, or a unit
BackendOutcomes == {"fail", "none", "unit"}

\* SDPSession constructor, before the remote descriptor is assigned; clock
\* numbers the calls as they arrive and resolved logs the calls of process()
\* that resolved: the path each took and the remote descriptor it began with
NewSdp(composed, type) ==
  [live |-> TRUE, composed |-> composed, type |-> type,
   remoteDescriptor |-> NoDescriptor, localDescriptor |-> NoLocal,
   negotiationRole |-> "", shouldRenegotiate |-> FALSE,
   shouldProcessRemoteDescriptorAsAnswerer |-> FALSE,
   medias |-> <<>>, mediaTypes |-> {}, nextUnit |-> 1, clock |-> 0,
   resolved |-> {}, candidates |-> {}]

\* set remoteDescriptor, were it to assign the role whatever it is
setRemoteDescriptorOverwrites(s, d) ==
  IF d = NoDescriptor THEN s
  ELSE [s EXCEPT !.negotiationRole = NEGOTIATION_ROLE.ANSWERER,
                 !.shouldRenegotiate =
                    IF s.remoteDescriptor # NoDescriptor THEN TRUE ELSE @,
                 !.remoteDescriptor = d]

\* set remoteDescriptor
setRemoteDescriptor(s, d) ==
  IF d = NoDescriptor THEN s
  ELSE LET role == IF s.localDescriptor = NoLocal /\ s.negotiationRole = ""
                   THEN NEGOTIATION_ROLE.ANSWERER ELSE s.negotiationRole
       IN [s EXCEPT !.negotiationRole = role,
                    !.shouldRenegotiate =
                       IF s.remoteDescriptor # NoDescriptor THEN TRUE ELSE @,
                    !.shouldProcessRemoteDescriptorAsAnswerer =
                       IF s.remoteDescriptor = NoDescriptor
                          /\ role = NEGOTIATION_ROLE.OFFERER THEN TRUE ELSE @,
                    !.remoteDescriptor = d]

\* set localDescriptor
setLocalDescriptor(s, l) ==
  IF l = NoLocal THEN s
  ELSE [s EXCEPT !.localDescriptor = l,
                 !.negotiationRole =
                    IF s.remoteDescriptor = NoDescriptor /\ @ = ""
                    THEN NEGOTIATION_ROLE.OFFERER ELSE @]

\* A media unit as an adapter's negotiate returns it: of one kind, of the
\* session's type, negotiated by the call `by`; cands are the candidates added
\* to it and answered says that processAnswer succeeded on it
NewUnit(id, kind, type, by) ==
  [id |-> id, kind |-> kind, type |-> type, by |-> by, cands |-> {},
   answered |-> FALSE]

\* SDPSession.getAnswer: the header of the first unit that is not audio, else
\* of the first unit; the section of the first audio unit, then those of all
\* units that are not audio
getAnswer(units) ==
  LET isAudio(m) == m.kind = "audio"
      notAudio(m) == m.kind # "audio"
      headDescription == SelectSeq(units, isAudio)
      remainingDescriptions == SelectSeq(units, notAudio)
      section(m) == [id |-> m.id, kind |-> m.kind]
      header == IF remainingDescriptions # <<>> THEN remainingDescriptions[1]
                ELSE units[1]
  IN IF units = <<>> THEN NoLocal
     ELSE <<[id |-> header.id, kind |-> "header"]>>
          \o (IF headDescription # <<>> THEN <<section(headDescription[1])>>
              ELSE <<>>)
          \o [i \in 1..Len(remainingDescriptions) |->
                section(remainingDescriptions[i])]

\* The kinds a local descriptor has a section for
localKinds(l) == {l[i].kind : i \in 1..Len(l)} \ {"header"}

\* SdpWrapper.hasAvailableVideoCodec / hasAvailableAudioCodec: the descriptor
\* has a video (main or content) section, an audio section
hasAvailableVideoCodec(kinds) == kinds \cap {"video", "content"} # {}
hasAvailableAudioCodec(kinds) == "audio" \in kinds

\* SDPSession._hasAvailableCodec
hasAvailableCodec(s) ==
  /\ hasAvailableVideoCodec(s.remoteDescriptor)
       = hasAvailableVideoCodec(localKinds(s.localDescriptor))
  /\ hasAvailableAudioCodec(s.remoteDescriptor)
       = hasAvailableAudioCodec(localKinds(s.localDescriptor))

\* SDPSession.fillMediaTypes
fillMediaTypes(s) ==
  [s EXCEPT !.mediaTypes = {s.medias[i].kind : i \in 1..Len(s.medias)}]

\* The first unit of a kind (Array.find), or None
findMedia(units, kind) ==
  IF \E i \in 1..Len(units) : units[i].kind = kind
  THEN (CHOOSE i \in 1..Len(units) :
          /\ units[i].kind = kind
          /\ \A j \in 1..(i - 1) : units[j].kind # kind)
  ELSE None

\* The errors a call on the session rejects with: the one a backend call
\* rejected with, MEDIA_NO_AVAILABLE_CODEC, or a TypeError thrown in the session
SdpErrors == {"BACKEND", "MEDIA_NO_AVAILABLE_CODEC", "TypeError"}

\* A call of process() suspended at an await: the path it took, the backend
\* call it waits for (stage, unit), the remote descriptor _defileAndProcess
\* read when it began, the units its negotiations returned so far, and whether
\* a backend call of it was rejected
SdpOp(id, path, stage, unit, desc, got, failed) ==
  [id |-> id, call |-> "process", path |-> path, stage |-> stage,
   unit |-> unit, desc |-> desc, got |-> got, failed |-> failed]

\* What a step gives: the session, the call if it is suspended again (else
\* NoOp), what it settled (else NoReply)
NoOp == [call |-> "none"]
Suspended(s, op) == [s |-> s, op |-> op, out |-> NoReply]
Resolved(s, op) ==
  [s |-> [s EXCEPT !.resolved = @ \cup {[path |-> op.path, desc |-> op.desc]}],
   op |-> NoOp,
   out |-> [op |-> "process", id |-> op.id, path |-> op.path, ok |-> TRUE,
            error |-> "", failed |-> op.failed]]
Rejected(s, op, error) ==
  [s |-> s, op |-> NoOp,
   out |-> [op |-> "process", id |-> op.id, path |-> op.path, ok |-> FALSE,
            error |-> error, failed |-> op.failed]]

\* SDPSession.process, from the codec checks to its end
processEnd(s, op) ==
  IF Len(s.medias) <= 0 /\ s.remoteDescriptor # NoDescriptor
  THEN Rejected(s, op, "MEDIA_NO_AVAILABLE_CODEC")
  ELSE IF /\ s.remoteDescriptor # NoDescriptor
          /\ s.localDescriptor # NoLocal
          /\ ~hasAvailableCodec(s)
       THEN Rejected(s, op, "MEDIA_NO_AVAILABLE_CODEC")
       ELSE Resolved(fillMediaTypes(s), op)

\* _defileAndProcess negotiates a kind when the session has no remote
\* descriptor, or when the descriptor it read has a section of that kind
defileNeeds(s, desc, kind) ==
  s.remoteDescriptor = NoDescriptor \/ kind \in desc

\* SDPSession._defileAndProcess from its i-th negotiation on, up to the next
\* await or through the end of process()
defileFrom(s, op, i) ==
  LET todo == {j \in i..Len(KindOrder) : defileNeeds(s, op.desc, KindOrder[j])}
      next == CHOOSE j \in todo : \A k \in todo : j <= k
      s1 == [s EXCEPT !.medias = @ \o op.got]
  IN IF todo # {}
     THEN Suspended(s, [op EXCEPT !.stage = KindOrder[next]])
     ELSE processEnd(setLocalDescriptor(s1, getAnswer(s1.medias)), op)

\* The order in which renegotiateStreams goes through the kinds
RenegotiationOrder == <<"video", "audio", "content">>

\* renegotiateStreams from its assignment of the local descriptor on, and the
\* rest of process()
renegotiateEnd(s, op) ==
  LET s1 == setLocalDescriptor(s, getAnswer(s.medias))
  IN IF s1.localDescriptor = NoLocal
     THEN Rejected(s1, op, "TypeError")
     ELSE Resolved([s1 EXCEPT !.shouldProcessRemoteDescriptorAsAnswerer = FALSE], op)

\* SDPSession.renegotiateStreams from its i-th stage on, up to the next await
\* or through the end of process()
RECURSIVE renegotiateFrom(_, _, _)
renegotiateFrom(s, op, i) ==
  IF i > Len(RenegotiationOrder) THEN renegotiateEnd(s, op)
  ELSE
    LET kind == RenegotiationOrder[i]
        asAnswerer == s.shouldProcessRemoteDescriptorAsAnswerer
        m == findMedia(s.medias, kind)
        answer == [op EXCEPT !.stage = kind, !.unit = s.medias[m].id]
    IN IF kind \notin s.remoteDescriptor THEN renegotiateFrom(s, op, i + 1)
       ELSE IF kind # "content"
            THEN IF asAnswerer /\ m # None THEN Suspended(s, answer)
                 ELSE renegotiateFrom(s, op, i + 1)
            ELSE IF asAnswerer
                 THEN IF m # None THEN Suspended(s, answer)
                      ELSE Rejected(s, op, "TypeError")
                 ELSE IF \/ s.localDescriptor = NoLocal
                         \/ "content" \notin localKinds(s.localDescriptor)
                      THEN Suspended(s, [op EXCEPT !.stage = "negotiate"])
                      ELSE renegotiateFrom(s, op, i + 1)

\* The position of a kind in renegotiateStreams
RenegotiationIndex(kind) ==
  CHOOSE i \in 1..Len(RenegotiationOrder) : RenegotiationOrder[i] = kind

\* The position of a kind in _defileAndProcess
KindIndex(kind) == CHOOSE i \in 1..Len(KindOrder) : KindOrder[i] = kind

\* SDPSession.process up to its first await
process(s, id) ==
  LET op == SdpOp(id, "", "", None, s.remoteDescriptor, <<>>, FALSE)
  IN IF s.shouldRenegotiate \/ s.shouldProcessRemoteDescriptorAsAnswerer
     THEN renegotiateFrom(s, [op EXCEPT !.path = "renegotiate"], 1)
     ELSE IF s.composed
          THEN defileFrom(s, [op EXCEPT !.path = "defile"], 1)
          ELSE Suspended(s, [op EXCEPT !.path = "plain", !.stage = "negotiate"])

\* The units an adapter's negotiate returns for a kind
negotiated(s, op, kind, out) ==
  IF out = "unit" THEN <<NewUnit(s.nextUnit, kind, s.type, op.id)>> ELSE <<>>

\* The continuation of a negotiate of _defileAndProcess: the units are kept, a
\* rejection is handed to _handleError, and the next kind follows
defileNegotiated(s, op, out) ==
  LET units == negotiated(s, op, op.stage, out)
  IN defileFrom([s EXCEPT !.nextUnit = @ + Len(units)],
                [op EXCEPT !.got = @ \o units,
                           !.failed = @ \/ out = "fail"],
                KindIndex(op.stage) + 1)

\* The continuation of the content negotiate of renegotiateStreams, were the
\* units it returns to replace those of the session
contentNegotiatedReplaces(s, op, out) ==
  LET units == negotiated(s, op, "content", out)
  IN renegotiateEnd([s EXCEPT !.nextUnit = @ + Len(units),
                              !.medias = units],
                    [op EXCEPT !.failed = @ \/ out = "fail"])

\* The continuation of the content negotiate of renegotiateStreams
contentNegotiated(s, op, out) ==
  LET units == negotiated(s, op, "content", out)
  IN renegotiateEnd([s EXCEPT !.nextUnit = @ + Len(units),
                              !.medias = @ \o units],
                    [op EXCEPT !.failed = @ \/ out = "fail"])

\* The continuation of the one negotiate of an adapter that is not composed:
\* it returns a unit for each kind of kinds, which replace the session's units
plainNegotiated(s, op, ok, kinds) ==
  LET isIn(k) == k \in kinds
      order == SelectSeq(KindOrder, isIn)
      units == [i \in 1..Len(order) |->
                  NewUnit(s.nextUnit + i - 1, order[i], s.type, op.id)]
      s1 == [s EXCEPT !.nextUnit = @ + Len(units), !.medias = units]
  IN IF ~ok THEN Rejected(s, [op EXCEPT !.failed = TRUE], "BACKEND")
     ELSE processEnd(setLocalDescriptor(s1, getAnswer(units)), op)

\* The continuation of a processAnswer of renegotiateStreams: the unit keeps
\* the remote section; a rejection is handed to _handleError for video and
\* audio and rejects the call for content
answerProcessed(s, op, ok) ==
  LET s1 == [s EXCEPT !.medias =
               [i \in 1..Len(@) |->
                  IF @[i].id = op.unit THEN [@[i] EXCEPT !.answered = TRUE]
                  ELSE @[i]]]
      op1 == [op EXCEPT !.failed = @ \/ ~ok]
  IN IF ok THEN renegotiateFrom(s1, op1, RenegotiationIndex(op.stage) + 1)
     ELSE IF op.stage = "content" THEN Rejected(s, op1, "BACKEND")
          ELSE renegotiateFrom(s, op1, RenegotiationIndex(op.stage) + 1)

\* SDPSession.addIceCandidate: every unit of type WEBRTC is given the
\* candidate; candidates logs the candidates the session was given
addIceCandidate(s, candidate) ==
  [s EXCEPT !.candidates = @ \cup {candidate},
            !.medias =
     [i \in 1..Len(@) |->
        IF @[i].type = MEDIA_TYPE.WEBRTC
        THEN [@[i] EXCEPT !.cands = @ \cup {candidate}] ELSE @[i]]]

\* A step of a call of the session: its state, its suspended calls, what it
\* settled
SdpStep(op, r) ==
  /\ sdp' = r.s
  /\ sdpOps' = (sdpOps \ {op}) \cup (IF r.op = NoOp THEN {} ELSE {r.op})
  /\ sdpOut' = r.out
  /\ UNCHANGED <<ctlVars, kmsVars, dtmfVars, offerVars, linkVars, indexVars>>

\* new SDPSession(remoteDescriptor, ...)
SdpNew(composed, type, d) ==
  /\ ~sdp.live
  /\ sdp' = setRemoteDescriptor(NewSdp(composed, type), d)
  /\ sdpOut' = NoReply
  /\ UNCHANGED <<sdpOps, ctlVars, kmsVars, dtmfVars, offerVars, linkVars, indexVars>>

\* session.remoteDescriptor = d
SdpSetRemoteDescriptor(d) ==
  /\ sdp.live
  /\ sdp' = setRemoteDescriptor(sdp, d)
  /\ sdpOut' = NoReply
  /\ UNCHANGED <<sdpOps, ctlVars, kmsVars, dtmfVars, offerVars, linkVars, indexVars>>

\* MediaController._handleExternalAudioMediaConnected, its statements on the
\* session: a media negotiated elsewhere is added to the units, its answer is
\* assigned to localDescriptor and the media types are filled
SdpExternalMedia(kind) ==
  /\ sdp.live
  /\ sdp.clock < MaxCalls
  /\ LET id == sdp.nextUnit
         s1 == [sdp EXCEPT !.clock = @ + 1, !.nextUnit = @ + 1,
                           !.medias = @ \o <<NewUnit(id, kind, sdp.type, sdp.clock + 1)>>]
         sdpAnswer == <<[id |-> id, kind |-> "header"], [id |-> id, kind |-> kind]>>
     IN sdp' = fillMediaTypes(setLocalDescriptor(s1, sdpAnswer))
  /\ sdpOut' = NoReply
  /\ UNCHANGED <<sdpOps, ctlVars, kmsVars, dtmfVars, offerVars, linkVars, indexVars>>

\* session.process()
SdpProcess ==
  /\ sdp.live
  /\ sdp.clock < MaxCalls
  /\ SdpStep(NoOp, process([sdp EXCEPT !.clock = @ + 1], sdp.clock + 1))

\* An adapter's negotiate of _defileAndProcess settles; it returns no unit
\* only when it was given a remote section to answer
SdpDefileNegotiated(op, out) ==
  /\ op.path = "defile"
  /\ out = "none" => op.stage \in op.desc
  /\ SdpStep(op, defileNegotiated(sdp, op, out))

\* The negotiate of an adapter that is not composed settles; it returns units
\* of the kinds of the remote descriptor it was given, and at least one unit
\* when it was given none and generates the offer
SdpPlainNegotiated(op, ok, kinds) ==
  /\ op.path = "plain"
  /\ op.desc # NoDescriptor => kinds \subseteq op.desc
  /\ (op.desc = NoDescriptor /\ ok) => kinds # {}
  /\ ~ok => kinds = {}
  /\ SdpStep(op, plainNegotiated(sdp, op, ok, kinds))

\* The content negotiate of renegotiateStreams settles
SdpContentNegotiated(op, out) ==
  /\ op.path = "renegotiate"
  /\ op.stage = "negotiate"
  /\ SdpStep(op, contentNegotiated(sdp, op, out))

\* A processAnswer of renegotiateStreams settles
SdpAnswerProcessed(op, ok) ==
  /\ op.path = "renegotiate"
  /\ op.stage # "negotiate"
  /\ SdpStep(op, answerProcessed(sdp, op, ok))

\* session.addIceCandidate(candidate): the candidate is named by the number
\* of the call
SdpAddIceCandidate ==
  /\ sdp.live
  /\ sdp.clock < MaxCalls
  /\ sdp' = addIceCandidate([sdp EXCEPT !.clock = @ + 1], sdp.clock + 1)
  /\ sdpOut' = [op |-> "addIceCandidate", id |-> sdp.clock + 1, path |-> "",
                ok |-> TRUE, error |-> "", failed |-> FALSE]
  /\ UNCHANGED <<sdpOps, ctlVars, kmsVars, dtmfVars, offerVars, linkVars, indexVars>>

\* A step emits MEDIA_NEGOTIATED:<id>: the setter of
\* shouldProcessRemoteDescriptorAsAnswerer is given true while the flag is
\* false, or process() reaches its end on the path that is not the
\* renegotiation and the role is ANSWERER
MediaNegotiatedEmitted ==
  /\ sdp'.live
  /\ \/ /\ sdp'.shouldProcessRemoteDescriptorAsAnswerer
        /\ sdp.live => ~sdp.shouldProcessRemoteDescriptorAsAnswerer
     \/ /\ sdpOut' # sdpOut
        /\ sdpOut' # NoReply
        /\ sdpOut'.op = "process" /\ sdpOut'.ok
        /\ sdpOut'.path # "renegotiate"
        /\ sdp'.negotiationRole = NEGOTIATION_ROLE.ANSWERER

\* The remote offers by the order of their sections: the sequences of
\* distinct kinds
Offers ==
  {o \in UNION {[1..n -> Kinds] : n \in 1..Cardinality(Kinds)} :
     \A i, j \in 1..Len(o) : i # j => o[i] # o[j]}

\* new SDPSession(remoteDescriptor, ...) on a composed adapter, the remote
\* offer given by the order of its sections
SdpNewOffer(type, o) ==
  /\ ~sdp.live
  /\ sdp' = setRemoteDescriptor(NewSdp(TRUE, type), {o[i] : i \in 1..Len(o)})
  /\ offer' = o
  /\ sdpOut' = NoReply
  /\ UNCHANGED <<sdpOps, ctlVars, kmsVars, dtmfVars, linkVars, indexVars>>

\* session.remoteDescriptor = d, the descriptor given by the order of its
\* sections
SdpSetRemoteOffer(o) ==
  /\ sdp.live
  /\ sdp' = setRemoteDescriptor(sdp, {o[i] : i \in 1..Len(o)})
  /\ offer' = o
  /\ sdpOut' = NoReply
  /\ UNCHANGED <<sdpOps, ctlVars, kmsVars, dtmfVars, linkVars, indexVars>>

\* --------------------------------------- sdp-session.js (DTMF commands)
\* sdp-session.js: const DEFAULT_DTMF_CODE_LENGTH
DEFAULT_DTMF_CODE_LENGTH == 2

\* The digits a media reports with MEDIA_DTMF
DtmfDigits == {"*", "#", "3", "4"}

\* NaN
NaN == 0 - 1

\* parseInt(codes.join(""), 10): the number the leading decimal digits of the
\* codes spell, NaN when the first code is no decimal digit
DigitValue(d) == IF d = "3" THEN 3 ELSE IF d = "4" THEN 4 ELSE NaN
RECURSIVE parseIntFrom(_, _, _)
parseIntFrom(codes, i, n) ==
  IF i > Len(codes) \/ DigitValue(codes[i]) = NaN THEN n
  ELSE parseIntFrom(codes, i + 1, (IF n = NaN THEN 0 ELSE n) * 10 + DigitValue(codes[i]))
parseInt(codes) == parseIntFrom(codes, 1, NaN)

\* The switch of _processDtmfCommand: the command that the first digit of the
\* queue and the codes after it select
dtmfCommand(queue) ==
  LET command == queue[1]
      codes == SubSeq(queue, 2, Len(queue))
  IN IF command = "*"
     THEN IF parseInt(codes) = 3 THEN "toggleSubtitle"
          ELSE IF parseInt(codes) = 4 THEN "toggleMediaSubtitle"
          ELSE "setVideoFloor"
     ELSE IF command = "#" THEN "setLayoutType"
     ELSE "unknown"

\* The DTMF state of a new SDPSession: an empty queue and no timer. hubPort
\* says whether the session has a hub port among its video medias, armed
\* whether the timer of dtmfTimeoutObject is still to expire, running holds
\* the commands that wait for the adapter; delivered, invoked and expired log
\* the digits received, the commands called and the expirations of the timer
NewDtmf(hubPort) ==
  [live |-> TRUE, hubPort |-> hubPort, dtmfQueue |-> <<>>,
   dtmfTimeoutObject |-> FALSE, armed |-> FALSE, running |-> <<>>,
   delivered |-> <<>>, invoked |-> <<>>, expired |-> 0]

\* SDPSession._restartDtmfCommand
restartDtmfCommand(s) ==
  [s EXCEPT !.armed = FALSE, !.dtmfQueue = <<>>, !.dtmfTimeoutObject = FALSE]

\* SDPSession._processDtmfCommand up to its await: a queue shorter than the
\* code length and an unknown command restart at once; toggleSubtitle and
\* toggleMediaSubtitle return without the adapter when the session has no hub
\* port, and the adapter's setVideoFloor and setLayoutType return at once
\* when given no media; else the command waits for the adapter
processDtmfCommand(s, dtmfCodeLength) ==
  LET c == dtmfCommand(s.dtmfQueue)
      called == [s EXCEPT !.invoked = Append(@, c)]
  IN IF Len(s.dtmfQueue) < dtmfCodeLength THEN [s |-> restartDtmfCommand(s), out |-> {}]
     ELSE IF c = "unknown" THEN [s |-> restartDtmfCommand(s), out |-> {}]
     ELSE IF ~s.hubPort
          THEN [s |-> restartDtmfCommand(called),
                out |-> {c} \cap {"setVideoFloor", "setLayoutType"}]
          ELSE [s |-> [called EXCEPT !.running = Append(@, c)], out |-> {c}]

\* SDPSession._handleDtmfEvent(digit)
handleDtmfEvent(s, digit) ==
  LET pushed == [s EXCEPT !.dtmfQueue = Append(@, digit)]
      first == [s EXCEPT !.dtmfQueue = <<digit>>, !.dtmfTimeoutObject = TRUE,
                         !.armed = TRUE]
  IN IF s.dtmfTimeoutObject
     THEN IF Len(pushed.dtmfQueue) >= DEFAULT_DTMF_CODE_LENGTH
          THEN processDtmfCommand(pushed, DEFAULT_DTMF_CODE_LENGTH)
          ELSE [s |-> [pushed EXCEPT !.armed = TRUE], out |-> {}]
     ELSE [s |-> first, out |-> {}]

\* A step of the DTMF handling of the session
DtmfStep(r) ==
  /\ dtmf' = r.s
  /\ dtmfOut' = r.out
  /\ UNCHANGED <<ctlVars, sdpVars, kmsVars, offerVars, linkVars, indexVars>>

\* A session is constructed, with or without a hub port
DtmfNew(hubPort) ==
  /\ ~dtmf.live
  /\ DtmfStep([s |-> NewDtmf(hubPort), out |-> {}])

\* An audio media of the session emits MEDIA_DTMF with a digit
DtmfDigit(digit) ==
  /\ dtmf.live
  /\ Len(dtmf.delivered) < MaxDigits
  /\ DtmfStep(handleDtmfEvent([dtmf EXCEPT !.delivered = Append(@, digit)], digit))

\* The timer of dtmfTimeoutObject expires: _processDtmfCommand is called
\* with the code length
DtmfTimeout ==
  /\ dtmf.live
  /\ dtmf.armed
  /\ DtmfStep(processDtmfCommand([dtmf EXCEPT !.armed = FALSE, !.expired = @ + 1],
                                 DEFAULT_DTMF_CODE_LENGTH))

\* The adapter settles the oldest command that waits for it: on success
\* _processDtmfCommand restarts, on failure it throws what _handleError gives
DtmfCommandSettled(ok) ==
  /\ dtmf.live
  /\ dtmf.running # <<>>
  /\ LET s == [dtmf EXCEPT !.running = Tail(@)]
     IN DtmfStep([s |-> IF ok THEN restartDtmfCommand(s) ELSE s, out |-> {}])

\* --------------------------------------------- kurento.js (the calls)
\* A request sent to a media server, or the settling of a call of the adapter,
\* as kmsOut holds them for the step that made them; id is the call's number
BackendCall(what, pipeline, element, id) ==
  [what |-> what, pipeline |-> pipeline, element |-> element, sink |-> None,
   id |-> id]
ConnectCall(source, sink, id) ==
  [what |-> "connect", pipeline |-> None, element |-> source, sink |-> sink,
   id |-> id]
Settled(what, op) ==
  [what |-> what, pipeline |-> op.pipeline, element |-> op.element,
   sink |-> op.sink, id |-> op.id]

\* A call of the adapter suspended at an await: where it is (pc), its
\* arguments and locals, and whether the object of the request it sent was
\* already gone from the media server when it sent it (doomed)
AdapterCallIds == 1..MaxAdapterCalls
KmsOp(id, call, pc, room, host, type) ==
  [id |-> id, call |-> call, pc |-> pc, room |-> room, host |-> host,
   type |-> type, pipeline |-> None, element |-> None, source |-> None,
   sink |-> None, doomed |-> FALSE]

\* The number a new call gets: the least one no suspended call has
FreeCallId == CHOOSE i \in AdapterCallIds :
                /\ \A op \in kmsOps : op.id # i
                /\ \A j \in 1..(i - 1) : \E op \in kmsOps : op.id = j
CanCall == \E i \in AdapterCallIds : \A op \in kmsOps : op.id # i

\* The next pipeline and the next element a media server creates
HasFreePipeline(a) == \E p \in PipelineIds : ~a.pipes[p].made
FreePipeline(a) == CHOOSE p \in PipelineIds :
                     ~a.pipes[p].made /\ \A q \in 1..(p - 1) : a.pipes[q].made
HasFreeElement(a) == \E e \in ElementIds : ~a.elems[e].made
FreeElement(a) == CHOOSE e \in ElementIds :
                    ~a.elems[e].made /\ \A f \in 1..(e - 1) : a.elems[f].made

\* this._mediaElements[id], or None
registered(a, e) == \E i \in 1..Len(a.mediaElements) : a.mediaElements[i] = e

\* delete this._mediaElements[id], for each id of a set
deregister(a, es) ==
  LET keep(e) == e \notin es
  IN [a EXCEPT !.mediaElements = SelectSeq(@, keep)]

\* Whether a media server still has a pipeline when a request on it arrives
gone(a, p) == a.pipes[p].state # "live"

\* A _getMediaPipeline that finds no promise of a pipeline
pipelinePromiseNotFound(a, key) == {}

\* this._pipelinePromises.find(pp => pp.id === roomId + hostId)
pipelinePromise(a, key) == {pp \in a.pipelinePromises : pp.id = key}

\* Kurento._createElement, the request: pipeline.create(type, ...)
createElementOn(a, op, p) ==
  [op EXCEPT !.pc = "createElement", !.pipeline = p, !.doomed = gone(a, p)]

\* Kurento._createElement, the callback: the element is given its host, its
\* pipeline and an empty transposers and is put into _mediaElements
createdElement(a, e, type, p) ==
  [a EXCEPT !.elems[e] = [NewElement(type, p, a.pipes[p].host)
                            EXCEPT !.owned = TRUE],
            !.mediaElements = Append(@, e)]

\* A step of the adapter
KmsStep(a, calls, out) ==
  /\ kms' = a
  /\ kmsOps' = calls
  /\ kmsOut' = out
  /\ UNCHANGED <<ctlVars, sdpVars, dtmfVars, offerVars, linkVars, indexVars>>

\* Kurento.createMediaElement up to its await of a media server: the balancer
\* gives the host; _getMediaPipeline returns the pipeline of (room, host),
\* else the promise of one being created, else asks the host for one
KmsCreateMediaElement(room, type, host) ==
  LET key == <<room, host>>
      p == kms.mediaPipelines[key]
      op == KmsOp(FreeCallId, "createMediaElement", "", room, host, type)
      pending == pipelinePromise(kms, key)
  IN /\ CanCall
     /\ IF p # None
        THEN KmsStep(kms, kmsOps \cup {createElementOn(kms, op, p)},
                     {BackendCall("createElement", p, None, op.id)})
        ELSE IF pending # {}
             THEN IF \E pp \in pending : pp.rejected
                  THEN KmsStep(kms, kmsOps, {Settled("rejected", op)})
                  ELSE KmsStep(kms, kmsOps \cup {[op EXCEPT !.pc = "waitPipeline"]},
                               {})
             ELSE KmsStep([kms EXCEPT !.pipelinePromises =
                                        @ \cup {[id |-> key, rejected |-> FALSE]}],
                          kmsOps \cup {[op EXCEPT !.pc = "createPipeline"]},
                          {BackendCall("createPipeline", None, None, op.id)})

\* The callback of _createMediaPipeline and what follows it without a pause:
\* _getMediaPipeline stores the pipeline and drops the promise, and the call
\* that asked for the pipeline and those that were given its promise go on to
\* _createElement; a rejection rejects them all and the promise stays
KmsPipelineCreated(op, ok) ==
  LET key == <<op.room, op.host>>
      callers == {w \in kmsOps : /\ w.pc \in {"createPipeline", "waitPipeline"}
                                 /\ <<w.room, w.host>> = key}
      p == FreePipeline(kms)
      a == [kms EXCEPT !.pipes[p] = NewPipeline(op.room, op.host),
                       !.mediaPipelines[key] = p,
                       !.pipelinePromises = {pp \in @ : pp.id # key}]
  IN /\ op.pc = "createPipeline"
     /\ ok => (HasFreePipeline(kms) /\ ~op.doomed)
     /\ IF ok
        THEN KmsStep(a, (kmsOps \ callers)
                          \cup {createElementOn(a, w, p) : w \in callers},
                     {BackendCall("createElement", p, None, w.id) : w \in callers})
        ELSE KmsStep([kms EXCEPT !.pipelinePromises =
                        {pp \in @ : pp.id # key} \cup {[id |-> key, rejected |-> TRUE]}],
                     kmsOps \ callers,
                     {Settled("rejected", w) : w \in callers})

\* The callback of _createElement in createMediaElement and what follows it:
\* the element is registered and the pipeline that _mediaPipelines holds for
\* (room, host) at that moment counts one more active element
KmsElementCreated(op, ok) ==
  LET key == <<op.room, op.host>>
      e == FreeElement(kms)
      a == createdElement(kms, e, op.type, op.pipeline)
      p == a.mediaPipelines[key]
      done == [op EXCEPT !.element = e]
  IN /\ op.call = "createMediaElement"
     /\ op.pc = "createElement"
     /\ ok => (HasFreeElement(kms) /\ ~op.doomed)
     /\ IF ~ok THEN KmsStep(kms, kmsOps \ {op}, {Settled("rejected", op)})
        ELSE IF p = None
             THEN KmsStep(a, kmsOps \ {op}, {Settled("rejected", done)})
             ELSE KmsStep([a EXCEPT !.pipes[p].activeElements = @ + 1],
                          kmsOps \ {op}, {Settled("resolved", done)})

\* The room of an element: that of the pipeline it was created on
roomOf(a, e) == a.pipes[a.elems[e].pipeline].room

\* Kurento._destroyRemainingMediaFilters: the filters of the hub ports of a
\* mixer leave _mediaElements
destroyRemainingMediaFilters(a, mixer) ==
  deregister(a, UNION {{a.elems[h].mediaFilter, a.elems[h].mediaFilterCaps} :
                         h \in a.elems[mixer].hubPorts})

\* Balancer.incrementHostStreams(hostId, profile), for the one profile the
\* adapter counts (MAIN): the counter of the host goes up by one, as
\* decrementHostStreams takes it down by one
incrementHostStreams(a, host) == [a EXCEPT !.streams[host] = @ + 1]

\* Kurento.stop, its statements on the transposers of the element: those on
\* its own pipeline are released by a timer of delay 0, which then decrements
\* the counter of the element's host (a placeholder has no release, and its
\* timer throws before it decrements); those that the pipelines of the room
\* in _mediaPipelines keep for it are released and forgotten by their
\* pipeline, whose host's counter is decremented. The timers read nothing
\* that another call changes, and are run with the call
releaseTransposers(a, room, e) ==
  LET key == <<a.elems[e].host, e>>
      held(p) == {t \in a.pipes[p].transposers : t.key = key}
      there == {a.mediaPipelines[<<room, h>>] : h \in HostIds} \ {None}
      own == {t \in a.elems[e].transposers : t.elem # None}
      sinkTransposersToRelease(h) ==
        IF /\ a.mediaPipelines[<<room, h>>] # None
           /\ held(a.mediaPipelines[<<room, h>>]) # {}
        THEN 1 ELSE 0
      counted == [h \in HostIds |->
                    a.streams[h] - sinkTransposersToRelease(h)
                      - (IF h = a.elems[e].host THEN Cardinality(own) ELSE 0)]
  IN [a EXCEPT
        !.streams = counted,
        !.pipes = [p \in PipelineIds |->
                     IF p \in there THEN [@[p] EXCEPT !.transposers = @ \ held(p)]
                     ELSE @[p]]]

\* The transposers that stop asks to release
releasedTransposers(a, room, e) ==
  LET key == <<a.elems[e].host, e>>
      there == {a.mediaPipelines[<<room, h>>] : h \in HostIds} \ {None}
  IN ({t.elem : t \in a.elems[e].transposers} \ {None})
       \cup UNION {{t.elem : t \in {u \in a.pipes[p].transposers : u.key = key}} :
                     p \in there}

\* Kurento.stop(room, type, elementId) up to the release of the element: a hub
\* port leaves _mediaElements with its two filters and the call resolves; a
\* mixer first loses the filters of its hub ports; an element that is found
\* leaves _mediaElements, its transposers are released and it is released
KmsStop(e) ==
  LET x == kms.elems[e]
      room == roomOf(kms, e)
      op == [KmsOp(FreeCallId, "stop", "releaseElement", room, x.host, x.type)
               EXCEPT !.element = e,
                      !.pipeline = kms.mediaPipelines[<<room, x.host>>],
                      !.doomed = gone(kms, x.pipeline)]
      a1 == IF x.type = "Composite" /\ registered(kms, e)
            THEN destroyRemainingMediaFilters(kms, e) ELSE kms
  IN /\ CanCall
     /\ x.made
     /\ x.type \in {"WebRtcEndpoint", "Composite", "HubPort"}
     /\ IF x.type = "HubPort"
        THEN KmsStep(IF registered(kms, e)
                     THEN deregister(kms, {e, x.mediaFilter, x.mediaFilterCaps})
                     ELSE kms,
                     kmsOps,
                     {Settled("resolved", op)}
                       \cup (IF registered(kms, e)
                             THEN {BackendCall("release", x.pipeline, f, op.id) :
                                     f \in {e, x.mediaFilter, x.mediaFilterCaps}}
                             ELSE {}))
        ELSE IF registered(a1, e)
             THEN KmsStep(releaseTransposers(deregister(a1, {e}), room, e),
                          kmsOps \cup {op},
                          {BackendCall("release", x.pipeline, f, op.id) :
                             f \in {e} \cup releasedTransposers(a1, room, e)})
             ELSE KmsStep(a1, kmsOps, {Settled("resolved", op)})

\* Kurento._releasePipeline, the request: the pipeline that _mediaPipelines
\* holds for (room, host) is asked to release itself
releasePipeline(a, op) ==
  LET p == a.mediaPipelines[<<op.room, op.host>>]
  IN [a |-> IF gone(a, p) THEN a ELSE [a EXCEPT !.pipes[p].state = "releasing"],
      op |-> [op EXCEPT !.pc = "releasePipeline", !.pipeline = p,
                        !.doomed = gone(a, p)]]

\* The callback of mediaElement.release in stop: the pipeline read when stop
\* began counts one active element less and, at zero or below, the pipeline
\* of (room, host) is released
KmsElementReleased(op, ok) ==
  LET p == op.pipeline
      a1 == IF p = None THEN kms
            ELSE [kms EXCEPT !.pipes[p].activeElements = @ - 1]
      r == releasePipeline(a1, op)
  IN /\ op.call = "stop"
     /\ op.pc = "releaseElement"
     /\ ok => ~op.doomed
     /\ IF ~ok THEN KmsStep(kms, kmsOps \ {op}, {Settled("rejected", op)})
        ELSE IF /\ p # None
                /\ a1.pipes[p].activeElements <= 0
                /\ a1.mediaPipelines[<<op.room, op.host>>] # None
             THEN KmsStep(r.a, (kmsOps \ {op}) \cup {r.op},
                          {BackendCall("releasePipeline", r.op.pipeline, None, op.id)})
             ELSE KmsStep(a1, kmsOps \ {op}, {Settled("resolved", op)})

\* The callback of pipeline.release in _releasePipeline: the entry of (room,
\* host) leaves _mediaPipelines
KmsPipelineReleased(op, ok) ==
  LET key == <<op.room, op.host>>
  IN /\ op.pc = "releasePipeline"
     /\ ok => ~op.doomed
     /\ IF ok
        THEN KmsStep([kms EXCEPT !.pipes[op.pipeline].state = "released",
                                 !.mediaPipelines[key] = None],
                     kmsOps \ {op}, {Settled("resolved", op)})
        ELSE KmsStep(IF op.doomed THEN kms
                     ELSE [kms EXCEPT !.pipes[op.pipeline].state = "live"],
                     kmsOps \ {op}, {Settled("rejected", op)})

\* Kurento.createHubPort(mixerId) up to its first await: the mixer is asked
\* for a hub port
KmsCreateHubPort(mixer) ==
  LET x == kms.elems[mixer]
      op == [KmsOp(FreeCallId, "createHubPort", "createHubPort",
                   roomOf(kms, mixer), x.host, "HubPort")
               EXCEPT !.source = mixer, !.pipeline = x.pipeline,
                      !.doomed = gone(kms, x.pipeline)]
  IN /\ CanCall
     /\ x.made
     /\ x.type = "Composite"
     /\ IF registered(kms, mixer)
        THEN KmsStep(kms, kmsOps \cup {op},
                     {BackendCall("createHubPort", x.pipeline, mixer, op.id)})
        ELSE KmsStep(kms, kmsOps, {Settled("rejected", op)})

\* mixer.createHubPort() and setOutputBitrate settle: the hub port is given
\* the mixer's host and pipeline, and _createMediaFilter asks for the first
\* GStreamer filter
KmsHubPortCreated(op, ok) ==
  LET h == FreeElement(kms)
      a == [kms EXCEPT !.elems[h] = NewElement("HubPort", op.pipeline, op.host)]
  IN /\ op.pc = "createHubPort"
     /\ ok => (HasFreeElement(kms) /\ ~op.doomed)
     /\ IF ok
        THEN KmsStep(a, (kmsOps \ {op})
                          \cup {[op EXCEPT !.pc = "createMediaFilter", !.element = h,
                                           !.doomed = gone(a, op.pipeline)]},
                     {BackendCall("createElement", op.pipeline, None, op.id)})
        ELSE KmsStep(kms, kmsOps \ {op}, {Settled("rejected", op)})

\* _createGstreamerFilter settles in _createMediaFilter: the filter is given
\* the mixer's host and pipeline and is put into _mediaElements, and
\* _createMediaFilterCaps asks for the second filter
KmsMediaFilterCreated(op, ok) ==
  LET f == FreeElement(kms)
      a == [kms EXCEPT
              !.elems[f] = NewElement("GStreamerFilter", op.pipeline, op.host),
              !.elems[op.element].mediaFilter = f,
              !.mediaElements = Append(@, f)]
  IN /\ op.pc = "createMediaFilter"
     /\ ok => (HasFreeElement(kms) /\ ~op.doomed)
     /\ IF ok
        THEN KmsStep(a, (kmsOps \ {op})
                          \cup {[op EXCEPT !.pc = "createMediaFilterCaps",
                                           !.doomed = gone(a, op.pipeline)]},
                     {BackendCall("createElement", op.pipeline, None, op.id)})
        ELSE KmsStep(kms, kmsOps \ {op}, {Settled("rejected", op)})

\* _createGstreamerFilter settles in _createMediaFilterCaps, and the rest of
\* createHubPort: the second filter, then the hub port, are put into
\* _mediaElements, and the mixer keeps the hub port
KmsMediaFilterCapsCreated(op, ok) ==
  LET c == FreeElement(kms)
      a == [kms EXCEPT
              !.elems[c] = NewElement("GStreamerFilter", op.pipeline, op.host),
              !.elems[op.element].mediaFilterCaps = c,
              !.elems[op.source].hubPorts = @ \cup {op.element},
              !.mediaElements = @ \o <<c, op.element>>]
  IN /\ op.pc = "createMediaFilterCaps"
     /\ ok => (HasFreeElement(kms) /\ ~op.doomed)
     /\ IF ok THEN KmsStep(a, kmsOps \ {op}, {Settled("resolved", op)})
        ELSE KmsStep(kms, kmsOps \ {op}, {Settled("rejected", op)})

\* The elements that are connected where their number is bounded
EndpointIds == 1..MaxEndpoints

\* The connection types of the adapter's callers, and one that is none of them
ConnectionTypes == {"ALL", "AUDIO", "VIDEO", "CONTENT", "OTHER"}

\* The switch of Kurento._connect and of Kurento._disconnect: the requests a
\* type sends to the source element, in their order, each named by the media
\* filter it carries ("ALL" for none). The case AUDIO has no break and falls
\* through to the case of VIDEO and CONTENT
connectionRequests(type) ==
  CASE type = "ALL" -> <<"ALL">>
    [] type = "AUDIO" -> <<"AUDIO", "VIDEO">>
    [] type \in {"VIDEO", "CONTENT"} -> <<"VIDEO">>
    [] OTHER -> <<>>

\* Kurento._connect(source, sink, type) and Kurento._disconnect(source, sink,
\* type) up to the return of the executor: a null source or sink and a type
\* the switch does not know reject the promise; else the requests of the type
\* are sent. settled counts the calls of resolve and reject, state is what the
\* first of them made of the promise
LinkNew(what, source, sink, type) ==
  LET requests == IF source = None \/ sink = None THEN <<>>
                  ELSE connectionRequests(type)
  IN /\ what \in {"connect", "disconnect"}
     /\ link' = [live |-> TRUE, what |-> what, source |-> source, sink |-> sink,
                 type |-> type, requests |-> requests,
                 unanswered |-> DOMAIN requests,
                 state |-> IF requests = <<>> THEN "rejected" ELSE "pending",
                 settled |-> IF requests = <<>> THEN 1 ELSE 0]
     /\ UNCHANGED <<ctlVars, sdpVars, kmsVars, dtmfVars, offerVars, indexVars>>

\* The callback of source.connect or source.disconnect for request i: it
\* calls reject on an error and resolve otherwise, and only the first call
\* settles the promise
LinkAnswered(i, ok) ==
  /\ link.live
  /\ i \in link.unanswered
  /\ link' = [link EXCEPT
                !.unanswered = @ \ {i},
                !.settled = @ + 1,
                !.state = IF @ # "pending" THEN @
                          ELSE IF ok THEN "resolved" ELSE "rejected"]
  /\ UNCHANGED <<ctlVars, sdpVars, kmsVars, dtmfVars, offerVars, indexVars>>

\* source.host.id + source.id + sink.host.id, the key of _transposingQueue and
\* of the event ELEMENT_TRANSPOSED
transposingKey(a, source, sink) ==
  <<a.elems[source].host, source, a.elems[sink].host>>

\* A _transposeAndConnect that never finds a source-side transposer
sourceTransposerNotFound(a, source, host) == {}

\* source.transposers[sink.host.id]: the source-side transposer toward a host,
\* or its placeholder
sourceTransposer(a, source, host) ==
  {t \in a.elems[source].transposers : t.host = host}

\* sink.pipeline.transposers[source.host.id + source.id], or None
sinkTransposer(a, source, sink) ==
  LET held == {t \in a.pipes[a.elems[sink].pipeline].transposers :
                 t.key = <<a.elems[source].host, source>>}
  IN IF held = {} THEN None ELSE (CHOOSE t \in held : TRUE).elem

\* this._connect(sinkTransposer, sink) of a call that finds the source already
\* transposed: a transposer that is not there connects nothing
connectSink(a, source, sink, id) ==
  LET t == sinkTransposer(a, source, sink)
  IN IF t = None THEN {} ELSE {ConnectCall(t, sink, id)}

\* Kurento.connect(sourceId, sinkId) up to its first await: elements of one
\* host are connected; else _transposeAndConnect asks for the source-side
\* transposer when the source has none toward the sink's host, waits for
\* ELEMENT_TRANSPOSED when one is being made, and else connects the sink-side
\* transposer to the sink
KmsConnect(source, sink) ==
  LET s == kms.elems[source]
      k == kms.elems[sink]
      key == transposingKey(kms, source, sink)
      op == [KmsOp(FreeCallId, "connect", "", roomOf(kms, source), s.host, "RtpEndpoint")
               EXCEPT !.source = source, !.sink = sink]
      toward == sourceTransposer(kms, source, k.host)
  IN /\ CanCall
     /\ s.made /\ k.made /\ source # sink
     /\ s.type = "WebRtcEndpoint" /\ k.type = "WebRtcEndpoint"
     /\ IF ~registered(kms, source) \/ ~registered(kms, sink)
        THEN KmsStep(kms, kmsOps, {Settled("rejected", op)})
        ELSE IF s.host = k.host
        THEN KmsStep(kms, kmsOps,
                     {ConnectCall(source, sink, op.id), Settled("resolved", op)})
        ELSE IF toward = {}
        THEN KmsStep([kms EXCEPT
                        !.elems[source].transposers =
                           @ \cup {[host |-> k.host, elem |-> None]},
                        !.transposingQueue = @ \cup {key}],
                     kmsOps \cup {[op EXCEPT !.pc = "createSourceTransposer",
                                             !.pipeline = s.pipeline,
                                             !.doomed = gone(kms, s.pipeline)]},
                     {BackendCall("createElement", s.pipeline, None, op.id)})
        ELSE IF key \in kms.transposingQueue
        THEN KmsStep(kms, kmsOps \cup {[op EXCEPT !.pc = "waitTransposed"]}, {})
        ELSE KmsStep(kms, kmsOps,
                     connectSink(kms, source, sink, op.id)
                       \cup {Settled("resolved", op)})

\* _createElement(source.pipeline, RTP) and generateOffer settle in
\* _transposeAndConnect: the source keeps the transposer, the counter of the
\* source's host is incremented, and the sink's pipeline is asked for the
\* sink-side one
KmsSourceTransposerCreated(op, ok) ==
  LET t == FreeElement(kms)
      k == kms.elems[op.sink]
      a == incrementHostStreams(
             [createdElement(kms, t, "RtpEndpoint", op.pipeline) EXCEPT
                !.elems[op.source].transposers =
                   {x \in @ : x.host # k.host} \cup {[host |-> k.host, elem |-> t]}],
             kms.elems[op.source].host)
  IN /\ op.pc = "createSourceTransposer"
     /\ ok => (HasFreeElement(kms) /\ ~op.doomed)
     /\ IF ok
        THEN KmsStep(a, (kmsOps \ {op})
                          \cup {[op EXCEPT !.pc = "createSinkTransposer",
                                           !.element = t, !.pipeline = k.pipeline,
                                           !.doomed = gone(a, k.pipeline)]},
                     {BackendCall("createElement", k.pipeline, None, op.id)})
        ELSE KmsStep(kms, kmsOps \ {op}, {Settled("rejected", op)})

\* _createElement(sink.pipeline, RTP) settles: the sink's pipeline keeps the
\* transposer under the source's key, and the two transposers are given each
\* other's descriptors
KmsSinkTransposerCreated(op, ok) ==
  LET t == FreeElement(kms)
      key == <<kms.elems[op.source].host, op.source>>
      a == [createdElement(kms, t, "RtpEndpoint", op.pipeline) EXCEPT
              !.pipes[op.pipeline].transposers =
                 {x \in @ : x.key # key} \cup {[key |-> key, elem |-> t]}]
  IN /\ op.pc = "createSinkTransposer"
     /\ ok => (HasFreeElement(kms) /\ ~op.doomed)
     /\ IF ok
        THEN KmsStep(a, (kmsOps \ {op})
                          \cup {[op EXCEPT !.pc = "answerTransposers",
                                           !.doomed = gone(a, op.pipeline)]},
                     {BackendCall("processOffer", op.pipeline, t, op.id)})
        ELSE KmsStep(kms, kmsOps \ {op}, {Settled("rejected", op)})

\* processOffer and processAnswer settle, and the rest of
\* _transposeAndConnect: the counter of the sink's host is incremented, the
\* source is connected to its transposer and the sink-side transposer to the
\* sink, the key leaves _transposingQueue and ELEMENT_TRANSPOSED is emitted, on
\* which every waiting call connects the sink-side transposer of its sink's
\* pipeline to its sink and resolves
KmsTransposersAnswered(op, ok) ==
  LET key == transposingKey(kms, op.source, op.sink)
      waiting == {w \in kmsOps : /\ w.pc = "waitTransposed"
                                 /\ transposingKey(kms, w.source, w.sink) = key}
      mine == {ConnectCall(op.source, op.element, op.id)}
                \cup connectSink(kms, op.source, op.sink, op.id)
      theirs == UNION {connectSink(kms, w.source, w.sink, w.id) : w \in waiting}
      a == incrementHostStreams([kms EXCEPT !.transposingQueue = @ \ {key}],
                                kms.elems[op.sink].host)
  IN /\ op.pc = "answerTransposers"
     /\ ok => ~op.doomed
     /\ IF ok
        THEN KmsStep(a, (kmsOps \ {op}) \ waiting,
                     mine \cup theirs
                       \cup {Settled("resolved", w) : w \in waiting \cup {op}})
        ELSE KmsStep(kms, kmsOps \ {op}, {Settled("rejected", op)})

\* The elements _destroyElementsFromHost visits before Object.keys throws on
\* one that has no transposers: the keys of _mediaElements in their order, up
\* to the first such element
visited(a) ==
  {a.mediaElements[i] : i \in {j \in 1..Len(a.mediaElements) :
     \A k \in 1..j : a.elems[a.mediaElements[k]].owned}}

\* Kurento._destroyElementsFromHost(hostId), the handler of
\* MEDIA_SERVER_OFFLINE: the pipelines of the host leave _mediaPipelines in
\* every room; each element visited forgets its transposer toward the host and
\* leaves _mediaElements when it is on the host. The host has lost its
\* pipelines, and the requests it has not answered fail
KmsMediaServerOffline(host) ==
  LET a == [kms EXCEPT
              !.mediaPipelines = [k \in PipelineKeys |->
                                    IF k[2] = host THEN None ELSE @[k]],
              !.elems = [e \in ElementIds |->
                           IF e \in visited(kms)
                           THEN [@[e] EXCEPT !.transposers =
                                   {t \in @ : t.host # host}]
                           ELSE @[e]],
              !.pipes = [p \in PipelineIds |->
                           IF @[p].made /\ @[p].host = host /\ @[p].state # "released"
                           THEN [@[p] EXCEPT !.state = "lost"] ELSE @[p]]]
      purged == {e \in visited(kms) : kms.elems[e].host = host}
      fails(op) == op.pc \notin {"waitPipeline", "waitTransposed"}
                     /\ (op.host = host
                         \/ (op.pipeline # None /\ kms.pipes[op.pipeline].host = host))
  IN /\ \E p \in PipelineIds : kms.pipes[p].made /\ kms.pipes[p].host = host
     /\ KmsStep(deregister(a, purged),
                {IF fails(op) THEN [op EXCEPT !.doomed = TRUE] ELSE op : op \in kmsOps},
                {})

Next ==
  \/ \E r \in OneRoom, type \in UserTypes, u \in UserIds : Join(r, type, u) /\ UNCHANGED otherVars
  \/ \E c \in ClientIds, r \in OneRoom, type \in UserTypes, u \in UserIds :
       ClientJoin(c, r, type, u) /\ UNCHANGED otherVars
  \/ \E r \in OneRoom, u \in UserIds : Leave(r, u) /\ UNCHANGED otherVars
  \/ \E op \in ops : LeaveResume(op) /\ UNCHANGED otherVars
  \/ \E op \in ops : LeaveFinish(op) /\ UNCHANGED otherVars
  \/ \E u \in UserIds, name \in SessionNames, video \in BOOLEAN :
       Publish(u, name, video) /\ nextId' <= MaxPublished + 1
       /\ UNCHANGED otherVars
  \/ \E op \in ops, ok \in BOOLEAN : PublishResume(op, ok) /\ UNCHANGED otherVars
  \/ \E u \in UserIds, s \in SessionIds : Unpublish(u, s) /\ UNCHANGED otherVars
  \/ \E op \in ops : UnpublishResume(op) /\ UNCHANGED otherVars
  \/ \E u \in UserIds, name \in SessionNames, video \in BOOLEAN :
       PublishAndSubscribe(u, name, video) /\ nextId' <= MaxPublished + 1
       /\ UNCHANGED otherVars
  \/ \E op \in ops, ok \in BOOLEAN : PubSubMcuStarted(op, ok) /\ UNCHANGED otherVars
  \/ \E op \in ops, name \in SessionNames, video \in BOOLEAN :
       PubSubConnected(op, name, video) /\ nextId' <= MaxPublished + 1
       /\ UNCHANGED otherVars
  \/ \E op \in ops, ok \in BOOLEAN : PubSubPublished(op, ok) /\ UNCHANGED otherVars
  \/ \E u \in UserIds, src \in SessionIds, name \in SessionNames, video \in BOOLEAN :
       Subscribe(u, src, name, video) /\ nextId' <= MaxPublished + 1
       /\ UNCHANGED otherVars
  \/ \E op \in ops, ok \in BOOLEAN : SubscribeResume(op, ok) /\ UNCHANGED otherVars
  \/ \E r \in OneRoom, m \in SessionIds : SetContentFloor(r, m) /\ UNCHANGED otherVars
  \/ \E r \in OneRoom, m \in SessionIds : SetConferenceFloor(r, m) /\ UNCHANGED otherVars
  \/ \E r \in OneRoom : ReleaseContentFloor(r) /\ UNCHANGED otherVars
  \/ \E r \in OneRoom : ReleaseConferenceFloor(r) /\ UNCHANGED otherVars
  \/ \E c \in ClientIds, eventName \in RoomEvents, r \in OneRoom :
       OnEvent(c, eventName, r) /\ UNCHANGED otherVars
  \/ \E c \in ClientIds : ClientClose(c) /\ UNCHANGED otherVars

Spec == Init /\ [][Next]_vars

\* The rooms and their floors, one handler at a time: join, leave, publish,
\* unpublish and the four floor calls, by users of type SFU
NextFloor ==
  \/ \E r \in OneRoom, u \in UserIds : Join(r, "SFU", u) /\ UNCHANGED otherVars
  \/ \E r \in OneRoom, u \in UserIds :
       (leaveLookupFails(r, u) \/ ops = {}) /\ Leave(r, u) /\ UNCHANGED otherVars
  \/ \E op \in ops : LeaveResume(op) /\ UNCHANGED otherVars
  \/ \E u \in UserIds, video \in BOOLEAN :
       ops = {} /\ Publish(u, DEFAULT_MEDIA_SESSION_NAME, video) /\ nextId' <= MaxPublished + 1
       /\ UNCHANGED otherVars
  \/ \E op \in ops, ok \in BOOLEAN : PublishResume(op, ok) /\ UNCHANGED otherVars
  \/ \E u \in UserIds, s \in SessionIds : ops = {} /\ Unpublish(u, s) /\ UNCHANGED otherVars
  \/ \E op \in ops : UnpublishResume(op) /\ UNCHANGED otherVars
  \/ \E r \in OneRoom, m \in SessionIds : SetContentFloor(r, m) /\ UNCHANGED otherVars
  \/ \E r \in OneRoom, m \in SessionIds : SetConferenceFloor(r, m) /\ UNCHANGED otherVars
  \/ \E r \in OneRoom : ReleaseContentFloor(r) /\ UNCHANGED otherVars
  \/ \E r \in OneRoom : ReleaseConferenceFloor(r) /\ UNCHANGED otherVars

SpecFloor == Init /\ [][NextFloor]_vars

\* The conference floor of rooms with up to MaxSessions sessions, one
\* handler at a time: join, publish and the two conference floor calls
NextFloorSet ==
  \/ \E r \in OneRoom, u \in UserIds : Join(r, "SFU", u) /\ UNCHANGED otherVars
  \/ \E u \in UserIds, video \in BOOLEAN :
       ops = {} /\ Publish(u, DEFAULT_MEDIA_SESSION_NAME, video) /\ UNCHANGED otherVars
  \/ \E op \in ops, ok \in BOOLEAN : PublishResume(op, ok) /\ UNCHANGED otherVars
  \/ \E r \in OneRoom, m \in SessionIds : SetConferenceFloor(r, m) /\ UNCHANGED otherVars
  \/ \E r \in OneRoom : ReleaseConferenceFloor(r) /\ UNCHANGED otherVars

SpecFloorSet == Init /\ [][NextFloorSet]_vars

\* The rooms with an MCU, handlers interleaved: join, leave, publish and
\* publishAndSubscribe of sessions with video and the default name
NextMcu ==
  \/ \E r \in OneRoom, type \in UserTypes, u \in UserIds : Join(r, type, u) /\ UNCHANGED otherVars
  \/ \E r \in OneRoom, u \in UserIds : Leave(r, u) /\ UNCHANGED otherVars
  \/ \E op \in ops : LeaveResume(op) /\ UNCHANGED otherVars
  \/ \E op \in ops : LeaveFinish(op) /\ UNCHANGED otherVars
  \/ \E u \in UserIds : Publish(u, DEFAULT_MEDIA_SESSION_NAME, TRUE) /\ nextId' <= MaxPublished + 1
       /\ UNCHANGED otherVars
  \/ \E op \in ops, ok \in BOOLEAN : PublishResume(op, ok) /\ UNCHANGED otherVars
  \/ \E u \in UserIds : PublishAndSubscribe(u, DEFAULT_MEDIA_SESSION_NAME, TRUE) /\ nextId' <= MaxPublished + 1
       /\ UNCHANGED otherVars
  \/ \E op \in ops, ok \in BOOLEAN : PubSubMcuStarted(op, ok) /\ UNCHANGED otherVars
  \/ \E op \in ops : PubSubConnected(op, DEFAULT_MEDIA_SESSION_NAME, TRUE) /\ nextId' <= MaxPublished + 1
       /\ UNCHANGED otherVars
  \/ \E op \in ops, ok \in BOOLEAN : PubSubPublished(op, ok) /\ UNCHANGED otherVars

SpecMcu == Init /\ [][NextMcu]_vars

\* publishAndSubscribe alone, one call at a time, of any type: users join and
\* no user leaves
NextPubSub ==
  \/ \E r \in OneRoom, type \in UserTypes, u \in UserIds : Join(r, type, u) /\ UNCHANGED otherVars
  \/ \E u \in UserIds, video \in BOOLEAN :
       /\ ops = {}
       /\ PublishAndSubscribe(u, DEFAULT_MEDIA_SESSION_NAME, video)
       /\ UNCHANGED otherVars
  \/ \E op \in ops, ok \in BOOLEAN : PubSubMcuStarted(op, ok) /\ UNCHANGED otherVars
  \/ \E op \in ops, video \in BOOLEAN :
       PubSubConnected(op, DEFAULT_MEDIA_SESSION_NAME, video) /\ UNCHANGED otherVars
  \/ \E op \in ops : PubSubInvalidType(op) /\ UNCHANGED otherVars
  \/ \E op \in ops, ok \in BOOLEAN : PubSubPublished(op, ok) /\ UNCHANGED otherVars

SpecPubSub == Init /\ [][NextPubSub]_vars

\* The index of media sessions: sessions of either type and role are
\* published, added to the index any number of times, negotiated and removed
NextIndex ==
  \/ \E s \in IndexedIds, type \in {"RtpEndpoint", "WebRtcEndpoint"},
          role \in {"OFFERER", "ANSWERER"} : IndexPublished(s, type, role)
  \/ \E s \in IndexedIds : IndexAddMediaSession(s)
  \/ \E s \in IndexedIds : IndexRemoteDescriptor(s)
  \/ \E s \in IndexedIds : IndexProcessed(s)
  \/ \E s \in IndexedIds : IndexRemoveMediaSession(s)

SpecIndex == Init /\ [][NextIndex]_vars

\* join and leave on every room, handlers interleaved: a join names a new
\* user or an indexed one, a leave any room and any user. No room has an MCU
\* session, so that no leave awaits the stop of one
NextJoinLeave ==
  \/ \E r \in RoomIds, type \in UserTypes, u \in UserIds : Join(r, type, u) /\ UNCHANGED otherVars
  \/ \E r \in RoomIds, u \in UserIds : Leave(r, u) /\ UNCHANGED otherVars
  \/ \E op \in ops : LeaveResume(op) /\ UNCHANGED otherVars

SpecJoinLeave == Init /\ [][NextJoinLeave]_vars

\* The ids of the sessions that are published where their number is bounded
PublishedIds == 1..MaxPublished

\* The router's connect and disconnect requests on the sessions that users
\* of either type publish, one publish at a time
NextRouterConnect ==
  \/ \E r \in OneRoom, type \in UserTypes, u \in UserIds : Join(r, type, u) /\ UNCHANGED otherVars
  \/ \E u \in UserIds :
       /\ ops = {}
       /\ Publish(u, DEFAULT_MEDIA_SESSION_NAME, TRUE)
       /\ nextId' <= MaxPublished + 1
       /\ UNCHANGED otherVars
  \/ \E op \in ops, ok \in BOOLEAN : PublishResume(op, ok) /\ UNCHANGED otherVars
  \/ \E what \in {"connect", "disconnect"}, source \in PublishedIds,
          sinks \in SUBSET PublishedIds :
       RouterConnect(what, source, sinks) /\ UNCHANGED otherVars
  \/ \E op \in ops, ok \in BOOLEAN : ConnectSettled(op, ok) /\ UNCHANGED otherVars

SpecRouterConnect == Init /\ [][NextRouterConnect]_vars

\* The router's clients, handlers interleaved: join, leave, publish, subscribe,
\* event subscription and the loss of the transport, by users of type SFU
NextRouter ==
  \/ \E c \in ClientIds, r \in OneRoom, u \in UserIds : ClientJoin(c, r, "SFU", u) /\ UNCHANGED otherVars
  \/ \E r \in OneRoom, u \in UserIds : Leave(r, u) /\ UNCHANGED otherVars
  \/ \E op \in ops : LeaveResume(op) /\ UNCHANGED otherVars
  \/ \E u \in UserIds : Publish(u, DEFAULT_MEDIA_SESSION_NAME, TRUE) /\ nextId' <= MaxPublished + 1
       /\ UNCHANGED otherVars
  \/ \E op \in ops, ok \in BOOLEAN : PublishResume(op, ok) /\ UNCHANGED otherVars
  \/ \E u \in UserIds, src \in SessionIds :
       Subscribe(u, src, DEFAULT_MEDIA_SESSION_NAME, TRUE) /\ nextId' <= MaxPublished + 1
       /\ UNCHANGED otherVars
  \/ \E op \in ops, ok \in BOOLEAN : SubscribeResume(op, ok) /\ UNCHANGED otherVars
  \/ \E c \in ClientIds, eventName \in RoomEvents, r \in OneRoom :
       OnEvent(c, eventName, r) /\ UNCHANGED otherVars
  \/ \E c \in ClientIds : ClientClose(c) /\ UNCHANGED otherVars

SpecRouter == Init /\ [][NextRouter]_vars

\* The router's clients when users leave only because the transport of their
\* client is lost
NextClose ==
  \/ \E c \in ClientIds, r \in OneRoom, u \in UserIds : ClientJoin(c, r, "SFU", u) /\ UNCHANGED otherVars
  \/ \E op \in ops : LeaveResume(op) /\ UNCHANGED otherVars
  \/ \E u \in UserIds : Publish(u, DEFAULT_MEDIA_SESSION_NAME, TRUE) /\ nextId' <= MaxPublished + 1
       /\ UNCHANGED otherVars
  \/ \E op \in ops, ok \in BOOLEAN : PublishResume(op, ok) /\ UNCHANGED otherVars
  \/ \E u \in UserIds, src \in SessionIds :
       Subscribe(u, src, DEFAULT_MEDIA_SESSION_NAME, TRUE) /\ nextId' <= MaxPublished + 1
       /\ UNCHANGED otherVars
  \/ \E op \in ops, ok \in BOOLEAN : SubscribeResume(op, ok) /\ UNCHANGED otherVars
  \/ \E c \in ClientIds, eventName \in RoomEvents, r \in OneRoom :
       OnEvent(c, eventName, r) /\ UNCHANGED otherVars
  \/ \E c \in ClientIds : ClientClose(c) /\ UNCHANGED otherVars

SpecClose == Init /\ [][NextClose]_vars

\* One SDP session, its calls and the assignments of a remote descriptor of
\* all kinds interleaved, with at most MaxPending calls of process() suspended
NextSdp ==
  \/ \E composed \in BOOLEAN, type \in {MEDIA_TYPE.WEBRTC, MEDIA_TYPE.RTP},
        d \in Descriptors \cup {NoDescriptor} : SdpNew(composed, type, d)
  \/ SdpSetRemoteDescriptor(Kinds)
  \/ Cardinality(sdpOps) < MaxPending /\ SdpProcess
  \/ \E op \in sdpOps, out \in BackendOutcomes : SdpDefileNegotiated(op, out)
  \/ \E op \in sdpOps, ok \in BOOLEAN, kinds \in SUBSET Kinds :
       SdpPlainNegotiated(op, ok, kinds)
  \/ \E op \in sdpOps, out \in BackendOutcomes : SdpContentNegotiated(op, out)
  \/ \E op \in sdpOps, ok \in BOOLEAN : SdpAnswerProcessed(op, ok)
  \/ SdpAddIceCandidate

SpecSdp == Init /\ [][NextSdp]_vars

\* One SDP session, one call at a time: nothing is assigned or called while a
\* process() is suspended
NextSdpSeq ==
  \/ \E composed \in BOOLEAN, type \in {MEDIA_TYPE.WEBRTC, MEDIA_TYPE.RTP},
        d \in Descriptors \cup {NoDescriptor} : SdpNew(composed, type, d)
  \/ \E d \in Descriptors : sdpOps = {} /\ SdpSetRemoteDescriptor(d)
  \/ \E kind \in Kinds : sdpOps = {} /\ SdpExternalMedia(kind)
  \/ sdpOps = {} /\ SdpProcess
  \/ \E op \in sdpOps, out \in BackendOutcomes : SdpDefileNegotiated(op, out)
  \/ \E op \in sdpOps, ok \in BOOLEAN, kinds \in SUBSET Kinds :
       SdpPlainNegotiated(op, ok, kinds)
  \/ \E op \in sdpOps, out \in BackendOutcomes : SdpContentNegotiated(op, out)
  \/ \E op \in sdpOps, ok \in BOOLEAN : SdpAnswerProcessed(op, ok)
  \/ sdpOps = {} /\ SdpAddIceCandidate

SpecSdpSeq == Init /\ [][NextSdpSeq]_vars

\* One session on a composed adapter that answers remote offers, one call at
\* a time
NextSdpOffer ==
  \/ \E type \in {MEDIA_TYPE.WEBRTC, MEDIA_TYPE.RTP}, o \in Offers : SdpNewOffer(type, o)
  \/ \E o \in Offers : sdpOps = {} /\ SdpSetRemoteOffer(o)
  \/ sdpOps = {} /\ SdpProcess
  \/ \E op \in sdpOps, out \in BackendOutcomes : SdpDefileNegotiated(op, out)
  \/ \E op \in sdpOps, out \in BackendOutcomes : SdpContentNegotiated(op, out)

SpecSdpOffer == Init /\ [][NextSdpOffer]_vars

\* The DTMF commands of one session: digits, expirations of the timer and the
\* adapter's answers in any order
NextDtmf ==
  \/ \E hubPort \in BOOLEAN : DtmfNew(hubPort)
  \/ \E digit \in DtmfDigits : DtmfDigit(digit)
  \/ DtmfTimeout
  \/ \E ok \in BOOLEAN : DtmfCommandSettled(ok)

SpecDtmf == Init /\ [][NextDtmf]_vars

\* The elements the media servers have created so far
ElementsMade == Cardinality({e \in ElementIds : kms.elems[e].made})

\* The pipelines of the Kurento adapter under concurrent calls: endpoints are
\* created and stopped while other calls are suspended on the media server
NextKms ==
  \/ \E room \in OneRoom, host \in HostIds :
       KmsCreateMediaElement(room, "WebRtcEndpoint", host)
  \/ \E op \in kmsOps, ok \in BOOLEAN : KmsPipelineCreated(op, ok)
  \/ \E op \in kmsOps, ok \in BOOLEAN :
       (ok => ElementsMade < MaxCreated) /\ KmsElementCreated(op, ok)
  \/ \E e \in ElementIds : KmsStop(e)
  \/ \E op \in kmsOps, ok \in BOOLEAN : KmsElementReleased(op, ok)
  \/ \E op \in kmsOps, ok \in BOOLEAN : KmsPipelineReleased(op, ok)

SpecKms == Init /\ [][NextKms]_vars

\* Connections under concurrent calls: endpoints are created one at a time,
\* and connected while other connections are suspended on the media server
NextKmsConnect ==
  \/ \E room \in OneRoom, host \in HostIds :
       /\ kmsOps = {}
       /\ ElementsMade < MaxEndpoints
       /\ KmsCreateMediaElement(room, "WebRtcEndpoint", host)
  \/ \E op \in kmsOps, ok \in BOOLEAN : KmsPipelineCreated(op, ok)
  \/ \E op \in kmsOps, ok \in BOOLEAN : KmsElementCreated(op, ok)
  \/ \E source, sink \in ElementIds : KmsConnect(source, sink)
  \/ \E op \in kmsOps, ok \in BOOLEAN : KmsSourceTransposerCreated(op, ok)
  \/ \E op \in kmsOps, ok \in BOOLEAN : KmsSinkTransposerCreated(op, ok)
  \/ \E op \in kmsOps, ok \in BOOLEAN : KmsTransposersAnswered(op, ok)

SpecKmsConnect == Init /\ [][NextKmsConnect]_vars

\* The answer of a media server to the request that call i is suspended on
KmsAnswered(i) ==
  \E op \in kmsOps, ok \in BOOLEAN :
    /\ op.id = i
    /\ \/ KmsPipelineCreated(op, ok)
       \/ KmsElementCreated(op, ok)
       \/ KmsSourceTransposerCreated(op, ok)
       \/ KmsSinkTransposerCreated(op, ok)
       \/ KmsTransposersAnswered(op, ok)

\* The same connections on media servers that answer every request, with
\* success or with an error
SpecKmsConnectLive ==
  SpecKmsConnect /\ \A i \in AdapterCallIds : WF_vars(KmsAnswered(i))

\* The Kurento adapter, one call at a time: endpoints, mixers and their hub
\* ports
NextKmsSeq ==
  \/ \E room \in OneRoom, type \in {"WebRtcEndpoint", "Composite"}, host \in HostIds :
       kmsOps = {} /\ KmsCreateMediaElement(room, type, host)
  \/ \E op \in kmsOps, ok \in BOOLEAN : KmsPipelineCreated(op, ok)
  \/ \E op \in kmsOps, ok \in BOOLEAN :
       (ok => ElementsMade < MaxCreated) /\ KmsElementCreated(op, ok)
  \/ \E e \in ElementIds : kmsOps = {} /\ KmsStop(e)
  \/ \E op \in kmsOps, ok \in BOOLEAN : KmsElementReleased(op, ok)
  \/ \E op \in kmsOps, ok \in BOOLEAN : KmsPipelineReleased(op, ok)
  \/ \E mixer \in ElementIds : kmsOps = {} /\ KmsCreateHubPort(mixer)
  \/ \E op \in kmsOps, ok \in BOOLEAN :
       (ok => ElementsMade < MaxCreated) /\ KmsHubPortCreated(op, ok)
  \/ \E op \in kmsOps, ok \in BOOLEAN :
       (ok => ElementsMade < MaxCreated) /\ KmsMediaFilterCreated(op, ok)
  \/ \E op \in kmsOps, ok \in BOOLEAN :
       (ok => ElementsMade < MaxCreated) /\ KmsMediaFilterCapsCreated(op, ok)

SpecKmsSeq == Init /\ [][NextKmsSeq]_vars

\* Mixers and their hub ports, one call at a time, on media servers that go
\* offline
NextKmsOffline ==
  \/ \E room \in OneRoom, host \in HostIds :
       kmsOps = {} /\ KmsCreateMediaElement(room, "Composite", host)
  \/ \E op \in kmsOps, ok \in BOOLEAN : KmsPipelineCreated(op, ok)
  \/ \E op \in kmsOps, ok \in BOOLEAN :
       (ok => ElementsMade < MaxCreated) /\ KmsElementCreated(op, ok)
  \/ \E e \in ElementIds : kmsOps = {} /\ KmsStop(e)
  \/ \E op \in kmsOps, ok \in BOOLEAN : KmsElementReleased(op, ok)
  \/ \E op \in kmsOps, ok \in BOOLEAN : KmsPipelineReleased(op, ok)
  \/ \E mixer \in ElementIds : kmsOps = {} /\ KmsCreateHubPort(mixer)
  \/ \E op \in kmsOps, ok \in BOOLEAN :
       (ok => ElementsMade < MaxCreated) /\ KmsHubPortCreated(op, ok)
  \/ \E op \in kmsOps, ok \in BOOLEAN :
       (ok => ElementsMade < MaxCreated) /\ KmsMediaFilterCreated(op, ok)
  \/ \E op \in kmsOps, ok \in BOOLEAN :
       (ok => ElementsMade < MaxCreated) /\ KmsMediaFilterCapsCreated(op, ok)
  \/ \E host \in HostIds : kmsOps = {} /\ KmsMediaServerOffline(host)

SpecKmsOffline == Init /\ [][NextKmsOffline]_vars

\* The connections and disconnections of two elements of one host, one call
\* at a time, of every type
NextKmsLink ==
  \/ \E what \in {"connect", "disconnect"}, source, sink \in {None} \cup EndpointIds,
          type \in ConnectionTypes :
       /\ link.live => link.unanswered = {}
       /\ LinkNew(what, source, sink, type)
  \/ \E i \in 1..2, ok \in BOOLEAN : LinkAnswered(i, ok)

SpecKmsLink == Init /\ [][NextKmsLink]_vars

\* Transposition, one call at a time: endpoints of one room are created on
\* either host, connected and stopped in any order
NextKmsTranspose ==
  \/ \E host \in HostIds :
       /\ kmsOps = {}
       /\ ElementsMade < MaxEndpoints
       /\ KmsCreateMediaElement(1, "WebRtcEndpoint", host)
  \/ \E op \in kmsOps, ok \in BOOLEAN : KmsPipelineCreated(op, ok)
  \/ \E op \in kmsOps, ok \in BOOLEAN : KmsElementCreated(op, ok)
  \/ \E source, sink \in ElementIds : kmsOps = {} /\ KmsConnect(source, sink)
  \/ \E op \in kmsOps, ok \in BOOLEAN : KmsSourceTransposerCreated(op, ok)
  \/ \E op \in kmsOps, ok \in BOOLEAN : KmsSinkTransposerCreated(op, ok)
  \/ \E op \in kmsOps, ok \in BOOLEAN : KmsTransposersAnswered(op, ok)
  \/ \E e \in ElementIds : kmsOps = {} /\ KmsStop(e)
  \/ \E op \in kmsOps, ok \in BOOLEAN : KmsElementReleased(op, ok)
  \/ \E op \in kmsOps, ok \in BOOLEAN : KmsPipelineReleased(op, ok)

SpecKmsTranspose == Init /\ [][NextKmsTranspose]_vars

\* ------------------------------------------------------------------ claims
\* The sessions user u created in room r
OwnedSessions(r, u) ==
  {s \in UserSessionIds : sessions[s].live /\ sessions[s].userId = u
                          /\ sessions[s].roomId = r}

\* The step settles, with success, a leave(r, u) that found its room and user
LeaveResolves(r, u) ==
  /\ reply'.op = "leave" /\ reply'.rid = r /\ reply'.uid = u
  /\ reply'.ok /\ ~reply'.sync

\* C1: when controller.leave(roomId, userId) resolves for a member of the room,
\* the user is absent from room.users and from the controller's user index, and
\* every media session the user owned is absent from room.mediaSessions and from
\* the controller's mediaSessions index.
C1_LeaveRemovesUserAndSessions ==
  [][\A r \in RoomIds, u \in UserIds :
       LeaveResolves(r, u) =>
         /\ u \notin users'
         /\ rooms'[r].live => u \notin rooms'[r].users
         /\ OwnedSessions(r, u) \cap mediaSessions' = {}
         /\ rooms'[r].live => OwnedSessions(r, u) \cap rooms'[r].mediaSessions = {}]_vars

\* The room after setContentFloor(A); setContentFloor(B); releaseContentFloor()
AfterSetSetRelease(R, A, B) ==
  releaseContentFloor(setContentFloor(setContentFloor(R, A), B))

C3_FloorsReferToRoomSessions ==
  \A r \in RoomIds :
    rooms[r].live =>
      /\ rooms[r].contentFloor # None => rooms[r].contentFloor \in rooms[r].mediaSessions
      /\ rooms[r].conferenceFloor # None =>
           rooms[r].conferenceFloor \in rooms[r].mediaSessions

\* The events of type t the step emitted for room r
EmittedFor(t, r) ==
  {i \in DOMAIN emitted' : emitted'[i].type = t /\ emitted'[i].roomId = r}

\* The step emits MEDIA_DISCONNECTED for media m of room r
Disconnects(r, m) ==
  \E i \in EmittedFor("MEDIA_DISCONNECTED", r) : emitted'[i].mediaId = m

InSeq(x, seq) == \E i \in DOMAIN seq : seq[i] = x

\* C4: when MEDIA_DISCONNECTED is emitted for the media that is the room's
\* current content floor, the room clears the content floor and emits exactly
\* one CONTENT_FLOOR_CHANGED, whose floor is empty and whose previousFloor lists
\* that media.
C4_DisconnectClearsContentFloor ==
  [][\A r \in RoomIds, m \in SessionIds :
       (rooms[r].live /\ rooms[r].contentFloor = m /\ Disconnects(r, m)) =>
         /\ rooms'[r].live => rooms'[r].contentFloor = None
         /\ Cardinality(EmittedFor("CONTENT_FLOOR_CHANGED", r)) = 1
         /\ \A i \in EmittedFor("CONTENT_FLOOR_CHANGED", r) :
              emitted'[i].floor = None /\ InSeq(m, emitted'[i].previousFloor)]_vars

\* The last step disconnected a media and emitted the CONTENT_FLOOR_CHANGED that
\* empties the floor and lists that media, in a room that is still there
C4_Witness ==
  \E r \in RoomIds, i \in DOMAIN emitted, j \in DOMAIN emitted :
    /\ rooms[r].live /\ rooms[r].contentFloor = None
    /\ emitted[i].type = "MEDIA_DISCONNECTED" /\ emitted[i].roomId = r
    /\ emitted[j].type = "CONTENT_FLOOR_CHANGED" /\ emitted[j].roomId = r
    /\ emitted[j].floor = None
    /\ InSeq(emitted[i].mediaId, emitted[j].previousFloor)

\* C5: when MEDIA_DISCONNECTED is emitted for the media that is the room's
\* current conference floor, the conference floor is released and
\* CONFERENCE_FLOOR_CHANGED is emitted, whatever the state of the content floor.
C5_DisconnectReleasesConferenceFloor ==
  [][\A r \in RoomIds, m \in SessionIds :
       (rooms[r].live /\ rooms[r].conferenceFloor = m /\ Disconnects(r, m)) =>
         /\ rooms'[r].live => rooms'[r].conferenceFloor = None
         /\ EmittedFor("CONFERENCE_FLOOR_CHANGED", r) # {}]_vars

\* leave(r, u) is called in a state where room r or user u is not indexed, and
\* this step is the whole call
LeaveOfUnknown(r, u) ==
  /\ ~rooms[r].live \/ u \notin users
  /\ reply'.op = "leave" /\ reply'.sync
  /\ reply'.rid = r /\ reply'.uid = u

\* C6: a leave whose room id or user id is not indexed resolves without an
\* error and changes no room, no user, no media session and no media index; so
\* a second leave for a user that has already left resolves
C6_LeaveOfUnknownResolvesUnchanged ==
  [][\A r \in RoomIds, u \in UserIds :
       LeaveOfUnknown(r, u) =>
         /\ reply'.ok
         /\ UNCHANGED <<rooms, users, userObjs, mediaSessions, medias, sessions>>
         /\ emitted' = <<>>]_vars

\* A second leave for a user that has left has just resolved: the room is still
\* indexed and the user, which had been created, is not
C6_Witness ==
  /\ reply.op = "leave" /\ reply.sync /\ reply.ok
  /\ rooms[reply.rid].live
  /\ reply.uid < nextUserId /\ reply.uid \notin users

\* The default MCU session of room r before the step: the session of type MCU
\* named 'default' that room.mediaSessions holds
DefaultMcuOf(r) ==
  IF rooms[r].live
  THEN {s \in rooms[r].mediaSessions :
          sessions[s].kind = "MCU" /\ sessions[s].name = DEFAULT_MEDIA_SESSION_NAME}
  ELSE {}

\* The MCU users of room r after the step
McuUsersAfter(r) == {u \in rooms'[r].users : userObjs'[u].type = "MCU"}

\* The sessions room r holds before the step for SFU users that are in the
\* room after it
SfuSessionsKept(r) ==
  {s \in rooms[r].mediaSessions :
     /\ sessions[s].kind = "SDP"
     /\ sessions[s].userId \in rooms'[r].users
     /\ userObjs'[sessions[s].userId].type = "SFU"}

\* C7, first sentence: a leave resolves and leaves no MCU user in a room that
\* has a default MCU session; the session is stopped and out of
\* room.mediaSessions, the sessions of the SFU users that stay are still there
C7_LastMcuUserLeaves ==
  \A r \in RoomIds, u \in UserIds, M \in McuSessionIds :
    (/\ rooms[r].live /\ rooms'[r].live /\ M \in DefaultMcuOf(r)
     /\ LeaveResolves(r, u) /\ McuUsersAfter(r) = {}) =>
      /\ M \notin rooms'[r].mediaSessions
      /\ sessions'[M].status = "stopped"
      /\ SfuSessionsKept(r) \subseteq rooms'[r].mediaSessions

\* C7, second sentence: a step that leaves an MCU user in the room neither
\* stops nor removes the default MCU session
C7_McuUserKeepsSession ==
  \A r \in RoomIds, M \in McuSessionIds :
    (/\ rooms[r].live /\ rooms'[r].live /\ M \in DefaultMcuOf(r)
     /\ sessions[M].status \in {"starting", "started"}
     /\ McuUsersAfter(r) # {}) =>
      /\ M \in rooms'[r].mediaSessions
      /\ sessions'[M].status \in {"starting", "started"}

\* C7: when the last MCU user leaves a room that has a default MCU session, the
\* MCU session is stopped and is no longer in room.mediaSessions, while the SFU
\* users and their media sessions remain in the room; while at least one MCU
\* user is still in the room the MCU session is neither stopped nor removed.
C7_McuSessionFollowsMcuUsers ==
  [][C7_LastMcuUserLeaves /\ C7_McuUserKeepsSession]_vars

\* The default MCU sessions room r holds after the step
DefaultMcuAfter(r) ==
  IF rooms'[r].live
  THEN {s \in rooms'[r].mediaSessions :
          sessions'[s].kind = "MCU" /\ sessions'[s].name = DEFAULT_MEDIA_SESSION_NAME}
  ELSE {}

\* The step is a publishAndSubscribe call of MCU user u of room r
McuUserCalls(r, u) ==
  /\ ops \subseteq ops'
  /\ \E op \in ops' \ ops :
       op.kind = "pubsub" /\ op.phase \in {1, 3} /\ op.utype = "MCU"
       /\ op.rid = r /\ op.uid = u

\* The step is the return of start() and process() of MCU session M, created
\* by a publishAndSubscribe of room r and still the room's MCU session
McuStarted(r, M) ==
  \E op \in ops :
    /\ op.kind = "pubsub" /\ op.phase = 1 /\ op.rid = r /\ op.src = M
    /\ [op EXCEPT !.phase = 2] \in ops'
    /\ ~op.dead.live /\ rooms[r].live /\ M \in rooms[r].mediaSessions

\* A room never holds two default MCU sessions
C8_AtMostOneMcuSession ==
  \A r \in RoomIds :
    rooms[r].live => Cardinality(DefaultMcuOf(r)) <= 1

\* Every publishAndSubscribe call of an MCU user leaves the room with exactly
\* one default MCU session, the one it had if it had one, and an MCU session
\* is only ever created in a room that had none
C8_CallCreatesWhenNone ==
  \A r \in RoomIds :
    /\ \A u \in UserIds :
         McuUserCalls(r, u) =>
           /\ Cardinality(DefaultMcuAfter(r)) = 1
           /\ DefaultMcuOf(r) # {} => DefaultMcuAfter(r) = DefaultMcuOf(r)
    /\ \A M \in McuSessionIds :
         (~sessions[M].live /\ sessions'[M].live /\ sessions'[M].roomId = r) =>
           DefaultMcuOf(r) = {} /\ DefaultMcuAfter(r) = {M}

\* When the created MCU session has started, every media session of the SFU
\* users that are in the room at that time is connected into it
C8_StartedConnectsSfuSessions ==
  \A r \in RoomIds, M \in McuSessionIds :
    McuStarted(r, M) =>
      \A u \in rooms[r].users :
        userObjs[u].type = "SFU" =>
          \A s \in userObjs[u].mediaSessions : <<s, M>> \in connected'

\* C8: for any interleaving of publishAndSubscribe calls by MCU users of a room
\* that has no MCU session, exactly one default MCU session is created for the
\* room, and every media session of the SFU users present at that time is
\* connected into it.
C8_OneMcuSessionConnectsSfuSessions ==
  /\ []C8_AtMostOneMcuSession
  /\ [][C8_CallCreatesWhenNone /\ C8_StartedConnectsSfuSessions]_vars

\* Two publishAndSubscribe calls of MCU users are in flight on the one MCU
\* session of the room, which has started and to which the session of an SFU
\* user has just been connected
C8_Witness ==
  \E r \in RoomIds, M \in McuSessionIds, s \in UserSessionIds :
    /\ rooms[r].live /\ DefaultMcuOf(r) = {M}
    /\ sessions[M].status = "started"
    /\ <<s, M>> \in connected
    /\ sessions[s].live /\ userObjs[sessions[s].userId].type = "SFU"
    /\ \E o1 \in ops, o2 \in ops :
         /\ o1.kind = "pubsub" /\ o2.kind = "pubsub" /\ o1.uid # o2.uid
         /\ o1.utype = "MCU" /\ o2.utype = "MCU"
         /\ o1.src = M /\ o2.src = M /\ o1.phase = 2

\* The step destroys the last user of the indexed room r
LastUserDestroyed(r) ==
  /\ rooms[r].live /\ rooms[r].users # {}
  /\ ~rooms'[r].live \/ rooms'[r].users = {}

TransportLost(c) == userSessions[c] # {} /\ userSessions'[c] = {}

\* The loss of a client's transport starts a leave for every user the client
\* joined that is still indexed
C10_LeaveInvokedForEveryUser ==
  \A c \in ClientIds :
    TransportLost(c) =>
      \A e \in userSessions[c] :
        \/ ~rooms[e[2]].live \/ e[1] \notin users
        \/ \E op \in ops' :
             op.kind = "leave" /\ op.via = "close" /\ op.rid = e[2] /\ op.uid = e[1]

\* User u was created and its leave handler has run
HasLeft(u) ==
  /\ u < nextUserId /\ u \notin users
  /\ \A op \in ops : op.kind = "leave" => op.uid # u

\* No session of a user whose leave handler has run is indexed by the
\* controller or held by a room
C10_NoSessionOfLeftUsers ==
  \A u \in UserIds, s \in UserSessionIds :
    (HasLeft(u) /\ sessions[s].live /\ sessions[s].userId = u) =>
      /\ s \notin mediaSessions
      /\ \A r \in RoomIds : rooms[r].live => s \notin rooms[r].mediaSessions

\* C10: after a client's transport closes or errors, leave is invoked for every
\* user that client joined; once those handlers have run, no media session of
\* those users remains indexed in the controller or in a room, including
\* sessions whose publish or subscribe was in flight when the transport closed.
C10_CloseLeavesNoSession ==
  /\ [][C10_LeaveInvokedForEveryUser]_vars
  /\ []C10_NoSessionOfLeftUsers

\* The units of the session that a call of process() arrived earlier than
\* candidate c negotiated
UnitsBefore(c) ==
  {i \in 1..Len(sdp.medias) :
     sdp.medias[i].type = MEDIA_TYPE.WEBRTC /\ sdp.medias[i].by < c}

\* C11: the calls on one media session take effect in the order they arrived.
\* Once every call has settled, an ICE candidate given to the session after a
\* process() arrived is held by every WebRTC unit that process() negotiated, as
\* it is when the two calls run one after the other.
C11_CallsTakeEffectInArrivalOrder ==
  (sdp.live /\ sdpOps = {}) =>
    \A c \in sdp.candidates : \A i \in UnitsBefore(c) : c \in sdp.medias[i].cands

\* A call of process() that found neither shouldRenegotiate nor
\* shouldProcessRemoteDescriptorAsAnswerer set settles in this step, on a
\* session whose remote descriptor an earlier such call resolved with, and
\* resolves
SecondProcessSettles ==
  /\ sdpOut'.op = "process"
  /\ sdpOut'.ok
  /\ sdpOut'.path \in {"plain", "defile"}
  /\ sdp.remoteDescriptor # NoDescriptor
  /\ \E r \in sdp.resolved :
        r.path \in {"plain", "defile"} /\ r.desc = sdp.remoteDescriptor

\* C12: process() called again with the same remote descriptor, neither
\* shouldRenegotiate nor shouldProcessRemoteDescriptorAsAnswerer being set,
\* leaves the session with the media units and the local descriptor it had: the
\* second call adds no unit.
C12_SecondProcessAddsNoUnit ==
  [][SecondProcessSettles =>
       /\ sdp'.medias = sdp.medias
       /\ sdp'.localDescriptor = sdp.localDescriptor]_vars

\* The call of process() that settles in this step negotiated with the
\* adapters, none of which rejected, and leaves the session without a unit
NoUnitCameBack ==
  /\ sdpOut'.op = "process"
  /\ sdpOut'.path \in {"plain", "defile"}
  /\ ~sdpOut'.failed
  /\ sdp'.medias = <<>>

\* C13: after a process() that resolved the session holds at least one media
\* unit, and a process() on a session with a remote descriptor to which no unit
\* came back rejects with MEDIA_NO_AVAILABLE_CODEC.
C13_ResolvedProcessHoldsUnit ==
  /\ []((sdpOut.op = "process" /\ sdpOut.ok) => Len(sdp.medias) >= 1)
  /\ [][(NoUnitCameBack /\ sdp'.remoteDescriptor # NoDescriptor) =>
          (~sdpOut'.ok /\ sdpOut'.error = "MEDIA_NO_AVAILABLE_CODEC")]_vars

\* C14: on a composed adapter, a process() during which a negotiate or a
\* processAnswer of a backend was rejected rejects with that backend's error;
\* it never resolves.
C14_BackendFailureRejectsProcess ==
  (sdp.live /\ sdp.composed /\ sdpOut.op = "process" /\ sdpOut.failed) =>
    (~sdpOut.ok /\ sdpOut.error = "BACKEND")

\* The session as the constructor leaves it before it assigns anything
Constructed(s) == IF s.live THEN s ELSE NewSdp(FALSE, MEDIA_TYPE.WEBRTC)

\* The role is empty exactly as long as no descriptor was assigned
RoleSetWithFirstDescriptor ==
  sdp.live =>
    (sdp.negotiationRole = ""
       <=> (sdp.remoteDescriptor = NoDescriptor /\ sdp.localDescriptor = NoLocal))

\* The first descriptor assigned gives the role, and a role once given stays
RoleFixedByFirstDescriptor ==
  LET s == Constructed(sdp)
  IN sdp'.live =>
       /\ s.negotiationRole # "" => sdp'.negotiationRole = s.negotiationRole
       /\ (s.negotiationRole = "" /\ sdp'.remoteDescriptor # NoDescriptor)
            => sdp'.negotiationRole = NEGOTIATION_ROLE.ANSWERER
       /\ (s.negotiationRole = "" /\ sdp'.localDescriptor # NoLocal)
            => sdp'.negotiationRole = NEGOTIATION_ROLE.OFFERER

\* C15: the negotiationRole of a session is given by the first descriptor
\* assigned to it, ANSWERER for a remote and OFFERER for a local one, and no
\* later assignment of a descriptor and no process() changes it.
C15_RoleFixedByFirstDescriptor ==
  []RoleSetWithFirstDescriptor /\ [][RoleFixedByFirstDescriptor]_vars

\* A session that generated the offer and was then given the remote answer,
\* which a further process() handled: it is still the offerer
C15_Witness ==
  /\ sdp.live
  /\ sdp.negotiationRole = NEGOTIATION_ROLE.OFFERER
  /\ sdp.remoteDescriptor # NoDescriptor
  /\ sdp.localDescriptor # NoLocal
  /\ \E r \in sdp.resolved : r.path = "renegotiate"

\* The pipelines of (room, host) that a media server has: created, and neither
\* released nor lost with their server
PipelinesOf(key) ==
  {p \in PipelineIds : /\ kms.pipes[p].made
                       /\ <<kms.pipes[p].room, kms.pipes[p].host>> = key
                       /\ kms.pipes[p].state \in {"live", "releasing"}}

\* The createMediaElement calls of (room, host) that are suspended at a pc
CallsAt(calls, key, pcs) ==
  {op \in calls : /\ op.call = "createMediaElement"
                  /\ <<op.room, op.host>> = key
                  /\ op.pc \in pcs}

\* At most one creation of a pipeline of (room, host) is pending, the calls
\* that wait for a pipeline wait for that one, and a media server has at most
\* one pipeline of (room, host)
OnePipelinePerKey ==
  \A key \in PipelineKeys :
    /\ Cardinality(CallsAt(kmsOps, key, {"createPipeline"})) <= 1
    /\ CallsAt(kmsOps, key, {"waitPipeline"}) # {}
         => CallsAt(kmsOps, key, {"createPipeline"}) # {}
    /\ Cardinality(PipelinesOf(key)) <= 1

\* A step asks a media server for a pipeline of (room, host) only when the
\* adapter has none and none is being created, and the calls that were
\* suspended for a pipeline all go on with the pipeline the adapter then has
PipelineCreatedOnceForAll ==
  \A key \in PipelineKeys :
    /\ CallsAt(kmsOps', key, {"createPipeline"}) \ kmsOps # {}
         => /\ kms.mediaPipelines[key] = None
            /\ CallsAt(kmsOps, key, {"createPipeline"}) = {}
            /\ Cardinality({c \in kmsOut' : c.what = "createPipeline"}) = 1
    /\ \A op \in CallsAt(kmsOps, key, {"createPipeline", "waitPipeline"}) :
         \A w \in CallsAt(kmsOps', key, {"createElement"}) :
           w.id = op.id => /\ w.pipeline # None
                           /\ w.pipeline = kms'.mediaPipelines[key]
                           /\ kms.mediaPipelines[key] = None

\* C16: however createMediaElement calls for one (room, host) that has no
\* pipeline interleave, the media server is asked for a pipeline once, every
\* one of the calls goes on with that same pipeline, and two pipelines of one
\* (room, host) never exist together.
C16_PipelineCreationCoalesced ==
  []OnePipelinePerKey /\ [][PipelineCreatedOnceForAll]_vars

\* Two calls that were suspended for one pipeline go on together to create
\* their elements on it
C16_Witness ==
  \E v, w \in kmsOps :
    /\ v.id # w.id
    /\ v.pc = "createElement" /\ w.pc = "createElement"
    /\ v.pipeline = w.pipeline
    /\ {c.id : c \in {d \in kmsOut : d.what = "createElement"}} = {v.id, w.id}

\* The elements registered in the adapter that live on a pipeline
ElementsOn(p) ==
  {e \in ElementIds : registered(kms, e) /\ kms.elems[e].pipeline = p}

\* C17: whenever no call is suspended, the activeElements of the pipeline the
\* adapter holds for a (room, host) is the number of registered elements that
\* live on that pipeline.
C17_ActiveElementsCountsRegistered ==
  kmsOps = {} =>
    \A key \in PipelineKeys :
      LET p == kms.mediaPipelines[key]
      IN p # None => kms.pipes[p].activeElements = Cardinality(ElementsOn(p))

\* The createMediaElement calls that a step sends to create their element
ObtainPipeline ==
  {w \in kmsOps' \ kmsOps : w.call = "createMediaElement" /\ w.pc = "createElement"}

\* C18: once a stop has brought the activeElements of a pipeline to zero and
\* its release was asked, no createMediaElement obtains that pipeline: a call
\* is sent to create its element only on a pipeline whose release has not
\* started.
C18_NoElementOnReleasingPipeline ==
  [][\A w \in ObtainPipeline : kms'.pipes[w.pipeline].state = "live"]_vars

\* The connect calls that are creating the transposers of a key
Transposing(calls, key) ==
  {op \in calls : /\ op.call = "connect"
                  /\ op.pc \in {"createSourceTransposer", "createSinkTransposer",
                                "answerTransposers"}
                  /\ transposingKey(kms, op.source, op.sink) = key}

\* The connect calls that wait for ELEMENT_TRANSPOSED
Waiting(calls) == {op \in calls : op.call = "connect" /\ op.pc = "waitTransposed"}

\* The transposers a media server was made to create
Transposers == {e \in ElementIds : kms.elems[e].made /\ kms.elems[e].type = "RtpEndpoint"}

\* One call at most creates the transposers of a key, and every transposer
\* that was created is the one its source keeps toward a host or the one a
\* pipeline keeps for a source: none was created beside another
OneTransposerPerSide ==
  LET made == {e \in ElementIds : kms.elems[e].made /\ kms.elems[e].owned}
      pipelines == {p \in PipelineIds : kms.pipes[p].made}
  IN /\ \A op \in kmsOps :
          op.call = "connect" =>
            Cardinality(Transposing(kmsOps,
                                    transposingKey(kms, op.source, op.sink))) <= 1
     /\ \A t \in Transposers :
          \/ \E s \in made : \E x \in kms.elems[s].transposers : x.elem = t
          \/ \E p \in pipelines : \E x \in kms.pipes[p].transposers : x.elem = t
     /\ \A s \in made, h \in HostIds :
          Cardinality({x \in kms.elems[s].transposers : x.host = h}) <= 1
     /\ \A p \in pipelines, s \in made, h \in HostIds :
          Cardinality({x \in kms.pipes[p].transposers : x.key = <<h, s>>}) <= 1

\* A call asks for a source-side transposer only when the source has none and
\* no placeholder toward the host of the sink, and no call is creating one
AsksWhenNone ==
  \A w \in kmsOps' \ kmsOps :
    (w.call = "connect" /\ w.pc = "createSourceTransposer") =>
      /\ sourceTransposer(kms, w.source, kms.elems[w.sink].host) = {}
      /\ Transposing(kmsOps, transposingKey(kms, w.source, w.sink)) = {}

\* A call that waits for ELEMENT_TRANSPOSED stays as it is until the step
\* that emits the event for its key, and in that step it asks one thing of
\* the media servers: to connect the sink-side transposer to its sink. The
\* transposer is there when its sink lives on the pipeline of the sink of the
\* call that created it, as sinks of one room on one host do
WaiterOnlyConnects ==
  \A w \in Waiting(kmsOps) :
    LET key == transposingKey(kms, w.source, w.sink)
        asked == {c \in kmsOut' : c.id = w.id /\ c.what \notin {"resolved", "rejected"}}
    IN \/ w \in kmsOps' /\ key \in kms'.transposingQueue /\ asked = {}
       \/ /\ \A v \in kmsOps' : v.id # w.id
          /\ key \in kms.transposingQueue /\ key \notin kms'.transposingQueue
          /\ Transposing(kmsOps, key) # {} /\ Transposing(kmsOps', key) = {}
          /\ \A c \in Transposing(kmsOps, key) :
               kms.elems[w.sink].pipeline = kms.elems[c.sink].pipeline =>
                 /\ sinkTransposer(kms', w.source, w.sink) # None
                 /\ asked = {ConnectCall(sinkTransposer(kms', w.source, w.sink),
                                         w.sink, w.id)}
          /\ asked \subseteq {ConnectCall(sinkTransposer(kms', w.source, w.sink),
                                          w.sink, w.id)}
          /\ kms'.mediaElements = kms.mediaElements

\* The call that created the transposers ends, when nothing failed, with one
\* source-side transposer on the pipeline of the source and one sink-side
\* transposer on the pipeline of the sink
CreatorLeavesOneOfEach ==
  \A op \in kmsOps :
    (op.call = "connect" /\ op.pc = "answerTransposers"
       /\ (\E c \in kmsOut' : c.id = op.id /\ c.what = "resolved")) =>
      LET src == sourceTransposer(kms', op.source, kms.elems[op.sink].host)
          snk == sinkTransposer(kms', op.source, op.sink)
      IN /\ \E x \in src : /\ x.elem \in Transposers
                            /\ kms.elems[x.elem].pipeline = kms.elems[op.source].pipeline
                            /\ x.elem # snk
         /\ snk \in Transposers
         /\ kms.elems[snk].pipeline = kms.elems[op.sink].pipeline

\* C19: when connect calls for one source toward sinks on one other host run
\* together, one of them creates one source-side and one sink-side
\* transposer, and the others wait for its ELEMENT_TRANSPOSED and then only
\* connect the sink-side transposer to their sink.
C19_TransposersCreatedOnce ==
  /\ []OneTransposerPerSide
  /\ [][AsksWhenNone /\ WaiterOnlyConnects /\ CreatorLeavesOneOfEach]_vars

\* The step that emits ELEMENT_TRANSPOSED: the call that created the
\* transposers and a call that waited connect the one sink-side transposer to
\* their two sinks
C19_Witness ==
  \E c, d \in kmsOut :
    /\ c.what = "connect" /\ d.what = "connect"
    /\ c.id # d.id
    /\ c.sink # d.sink
    /\ c.element = d.element
    /\ c.element \in Transposers
    /\ Cardinality(Transposers) = 2

\* What the adapter holds of a host after a step: no pipeline in any room and
\* no registered element
PurgedAfter(host) ==
  /\ \A key \in PipelineKeys : key[2] = host => kms'.mediaPipelines[key] = None
  /\ \A e \in ElementIds : registered(kms', e) => kms'.elems[e].host # host

\* C20: the step that handles MEDIA_SERVER_OFFLINE of a host leaves the
\* adapter with no pipeline of the host in any room and with no registered
\* element bound to the host, and asks nothing of a media server.
C20_OfflineHostPurged ==
  [][\A host \in HostIds :
       KmsMediaServerOffline(host) => (PurgedAfter(host) /\ kmsOut' = {})]_vars
\* ------------------------------------------------------------- C21
\* The digits '*' and '3' have been delivered, in this order and nothing
\* else, and the timer has not expired
StarThreeDelivered(s) ==
  s.live /\ s.delivered = <<"*", "3">> /\ s.expired = 0

\* C21: with code length 2, the delivery of '*' then '3' before the timer
\* expires invokes toggleSubtitle exactly once and, once no command runs,
\* leaves the queue empty; a third digit '*' delivered next starts a new
\* command: the queue holds only that '*', the timer runs and the delivery
\* invokes no command.
C21_StarThreeThenNewCommand ==
  [][/\ (dtmf.live /\ ~StarThreeDelivered(dtmf) /\ StarThreeDelivered(dtmf'))
        => dtmf'.invoked = <<"toggleSubtitle">>
     /\ (StarThreeDelivered(dtmf') /\ dtmf'.running = <<>>)
        => dtmf'.dtmfQueue = <<>>
     /\ (StarThreeDelivered(dtmf) /\ dtmf'.delivered = <<"*", "3", "*">>)
        => /\ dtmf'.dtmfQueue = <<"*">>
           /\ dtmf'.armed
           /\ dtmf'.invoked = dtmf.invoked]_vars

\* ------------------------------------------------------------- C26
\* A step in which a run of _processDtmfCommand ends: the timer expires or a
\* digit makes the queue reach the code length, and the command does not
\* wait for the adapter; or the adapter settles the command that waited
FlushEnds ==
  \/ /\ DtmfTimeout \/ (dtmf.live /\ dtmf.dtmfTimeoutObject /\ \E digit \in DtmfDigits : DtmfDigit(digit))
     /\ dtmf'.running = dtmf.running
  \/ \E ok \in BOOLEAN : DtmfCommandSettled(ok)

\* A step that runs _processDtmfCommand on a queue whose first digit is no
\* command
UnknownFlushed ==
  /\ DtmfTimeout \/ (dtmf.live /\ dtmf.dtmfTimeoutObject /\ \E digit \in DtmfDigits : DtmfDigit(digit))
  /\ dtmf'.delivered # <<>>
  /\ dtmf.dtmfQueue # <<>>
  /\ dtmf.dtmfQueue[1] \notin {"*", "#"}

\* C26: every flush of the DTMF queue, whatever the command and whatever the
\* outcome of its execution, ends with the queue empty and the timer
\* inactive; an unknown command invokes no adapter operation.
C26_FlushAlwaysRestarts ==
  [][/\ FlushEnds => /\ dtmf'.dtmfQueue = <<>>
                     /\ ~dtmf'.dtmfTimeoutObject
                     /\ ~dtmf'.armed
     /\ UnknownFlushed => dtmfOut' = {} /\ dtmf'.invoked = dtmf.invoked]_vars

\* ------------------------------------------------------------- C22
\* The session has negotiated audio and video (a process() resolved on a
\* remote descriptor of these two, and the units and the local descriptor
\* are of these two) and has been assigned a remote descriptor that adds a
\* content section
ContentAdded(s) ==
  /\ s.live
  /\ \E r \in s.resolved : r.desc = {"audio", "video"}
  /\ {s.medias[i].kind : i \in 1..Len(s.medias)} = {"audio", "video"}
  /\ localKinds(s.localDescriptor) = {"audio", "video"}
  /\ s.remoteDescriptor = {"audio", "video", "content"}

\* The content negotiate of the process() of such a session returns a unit
ContentUnitReturned ==
  /\ ContentAdded(sdp)
  /\ \E op \in sdpOps : SdpContentNegotiated(op, "unit")

\* C22: when a session negotiated with audio and video receives a remote
\* descriptor that adds a content section, process() calls negotiate on the
\* content adapter only, no negotiate or processAnswer on the audio and
\* video units, appends the content unit the adapter returns to the session
\* and resolves with a local descriptor of audio, video and content.
C22_ContentAddedNegotiatesContentOnly ==
  [][/\ (ContentAdded(sdp) /\ sdpOps = {} /\ SdpProcess)
        => \E op \in sdpOps' :
             /\ sdpOps' = {op}
             /\ op.path = "renegotiate" /\ op.stage = "negotiate"
             /\ sdp'.medias = sdp.medias
     /\ ContentUnitReturned
        => /\ sdpOps' = {}
           /\ Len(sdp'.medias) = Len(sdp.medias) + 1
           /\ SubSeq(sdp'.medias, 1, Len(sdp.medias)) = sdp.medias
           /\ sdp'.medias[Len(sdp'.medias)].kind = "content"
           /\ sdpOut'.ok
           /\ localKinds(sdp'.localDescriptor) = {"audio", "video", "content"}]_vars

\* The content unit has been appended and process() has resolved
C22_Witness ==
  /\ sdp.live
  /\ sdpOps = {}
  /\ sdpOut # NoReply /\ sdpOut.op = "process" /\ sdpOut.path = "renegotiate" /\ sdpOut.ok
  /\ \E r \in sdp.resolved : r.desc = {"audio", "video"}
  /\ Len(sdp.medias) = 3
  /\ sdp.medias[3].kind = "content"
  /\ ~sdp.medias[1].answered /\ ~sdp.medias[2].answered
  /\ localKinds(sdp.localDescriptor) = {"audio", "video", "content"}

\* ------------------------------------------------------------- C23
\* The position of a kind in the remote offer
OfferIndex(kind) == CHOOSE i \in 1..Len(offer) : offer[i] = kind

\* The sections of a local descriptor, after its header
sectionsOf(l) == SubSeq(l, 2, Len(l))

\* The local descriptor has one section per unit of the session
OneSectionPerUnit ==
  /\ Len(sectionsOf(sdp.localDescriptor)) = Len(sdp.medias)
  /\ \A i \in 1..Len(sdp.medias) :
       \E j \in 1..Len(sectionsOf(sdp.localDescriptor)) :
         sectionsOf(sdp.localDescriptor)[j].id = sdp.medias[i].id

\* Audio sections come first; the video and content sections of kinds of the
\* offer follow in the order of the offer
AudioThenOfferOrder ==
  LET sec == sectionsOf(sdp.localDescriptor)
      inOffer(k) == \E i \in 1..Len(offer) : offer[i] = k
  IN \A i, j \in 1..Len(sec) :
       i < j =>
         /\ sec[j].kind = "audio" => sec[i].kind = "audio"
         /\ (sec[i].kind # "audio" /\ sec[j].kind # "audio"
              /\ sec[i].kind # sec[j].kind
              /\ inOffer(sec[i].kind) /\ inOffer(sec[j].kind))
            => OfferIndex(sec[i].kind) < OfferIndex(sec[j].kind)

\* The header is that of the first unit that is not audio, else of the first
\* unit
HeaderOfFirstNonAudio ==
  LET l == sdp.localDescriptor
      others == {i \in 1..Len(sdp.medias) : sdp.medias[i].kind # "audio"}
      first == IF others = {} THEN 1
               ELSE CHOOSE i \in others : \A k \in others : i <= k
  IN /\ l[1].kind = "header"
     /\ l[1].id = sdp.medias[first].id
     /\ \A i \in 2..Len(l) : l[i].kind # "header"

\* C23: the answer reassembled by a session has one section per media unit
\* of the session: the audio section first, then the video and content
\* sections in the order they had in the remote offer, under a single header
\* taken from the first unit that is not audio or, when there is none, from
\* the first unit.
C23_AnswerFollowsOfferOrder ==
  (sdp.live /\ sdpOps = {} /\ sdp.localDescriptor # NoLocal)
    => /\ OneSectionPerUnit
       /\ AudioThenOfferOrder
       /\ HeaderOfFirstNonAudio

\* ------------------------------------------------------------- C24
\* A call of process() resolves in this step
ProcessSucceeds ==
  /\ sdpOut' # sdpOut
  /\ sdpOut' # NoReply
  /\ sdpOut'.op = "process" /\ sdpOut'.ok

\* The remote answer of an offerer has been processed: a process() that took
\* the renegotiation with the answer has resolved
AnswerProcessed(s) == \E r \in s.resolved : r.path = "renegotiate"

\* C24: for a session in the OFFERER role MEDIA_NEGOTIATED is emitted only
\* once the remote answer has been processed, never for an offerer whose
\* answer has not been processed yet; for a session in the ANSWERER role it
\* is emitted when process() succeeds.
C24_MediaNegotiatedWhenNegotiated ==
  [][/\ (MediaNegotiatedEmitted /\ sdp'.negotiationRole = NEGOTIATION_ROLE.OFFERER)
        => AnswerProcessed(sdp')
     /\ (ProcessSucceeds /\ sdp'.negotiationRole = NEGOTIATION_ROLE.ANSWERER)
        => MediaNegotiatedEmitted]_vars

\* ------------------------------------------------------------- C25
\* A step raises shouldProcessRemoteDescriptorAsAnswerer, shouldRenegotiate
AnswererFlagRaised ==
  /\ sdp'.live /\ sdp'.shouldProcessRemoteDescriptorAsAnswerer
  /\ sdp.live => ~sdp.shouldProcessRemoteDescriptorAsAnswerer
RenegotiateFlagRaised ==
  /\ sdp'.live /\ sdp'.shouldRenegotiate
  /\ sdp.live => ~sdp.shouldRenegotiate

\* A step assigns a remote descriptor to the session
RemoteAssigned ==
  \E d \in Descriptors : sdp.live /\ SdpSetRemoteDescriptor(d)

\* C25: shouldProcessRemoteDescriptorAsAnswerer is raised exactly when a
\* first remote descriptor is assigned to a session that already has a local
\* descriptor; shouldRenegotiate is raised only when a remote descriptor is
\* assigned while the session already has both a remote and a local
\* descriptor.
C25_FlagsRaisedOnAssignment ==
  [][/\ AnswererFlagRaised
          <=> (/\ RemoteAssigned
               /\ sdp.remoteDescriptor = NoDescriptor
               /\ sdp.localDescriptor # NoLocal)
     /\ RenegotiateFlagRaised
          => (/\ RemoteAssigned
              /\ sdp.remoteDescriptor # NoDescriptor
              /\ sdp.localDescriptor # NoLocal)]_vars

\* ------------------------------------------------------------- C27
\* The step emits MEDIA_DISCONNECTED for media m of room r and for no other
\* media of the room, and the room's callbacks run on it
DisconnectedOnly(r, m) ==
  /\ rooms[r].live /\ rooms'[r].live
  /\ r \in listeners
  /\ \E i \in 1..Len(emitted') :
       /\ emitted'[i].type = "MEDIA_DISCONNECTED"
       /\ emitted'[i].roomId = r /\ emitted'[i].mediaId = m
  /\ \A i \in 1..Len(emitted') :
       (emitted'[i].type = "MEDIA_DISCONNECTED" /\ emitted'[i].roomId = r)
         => emitted'[i].mediaId = m

\* C27: a MEDIA_DISCONNECTED event for a media of the room that is not the
\* current content floor (respectively conference floor) leaves that floor
\* and its history of previous floors unchanged and emits no floor-changed
\* event.
C27_DisconnectionOfOtherMediaKeepsFloor ==
  [][\A r \in RoomIds, m \in SessionIds :
       DisconnectedOnly(r, m)
         => /\ m # rooms[r].contentFloor
                 => /\ rooms'[r].contentFloor = rooms[r].contentFloor
                    /\ rooms'[r].previousContentFloors = rooms[r].previousContentFloors
                    /\ EmittedFor("CONTENT_FLOOR_CHANGED", r) = {}
            /\ m # rooms[r].conferenceFloor
                 => /\ rooms'[r].conferenceFloor = rooms[r].conferenceFloor
                    /\ rooms'[r].previousConferenceFloors
                         = rooms[r].previousConferenceFloors
                    /\ EmittedFor("CONFERENCE_FLOOR_CHANGED", r) = {}]_vars

\* C27 as the callbacks have it: the floor stays and no floor-changed event
\* is emitted, and the disconnected media is removed from the history of
\* previous floors, whose other entries keep their order.
C27_DisconnectionKeepsFloorPurgesHistory ==
  [][\A r \in RoomIds, m \in SessionIds :
       DisconnectedOnly(r, m)
         => /\ m # rooms[r].contentFloor
                 => /\ rooms'[r].contentFloor = rooms[r].contentFloor
                    /\ rooms'[r].previousContentFloors
                         = Without(rooms[r].previousContentFloors, m)
                    /\ EmittedFor("CONTENT_FLOOR_CHANGED", r) = {}
            /\ m # rooms[r].conferenceFloor
                 => /\ rooms'[r].conferenceFloor = rooms[r].conferenceFloor
                    /\ rooms'[r].previousConferenceFloors
                         = Without(rooms[r].previousConferenceFloors, m)
                    /\ EmittedFor("CONFERENCE_FLOOR_CHANGED", r) = {}]_vars

\* A media that is not the content floor has disconnected from a room whose
\* content and conference floors are set and whose histories are not empty
C27_Witness ==
  \E r \in RoomIds, i \in DOMAIN emitted :
    /\ emitted[i].type = "MEDIA_DISCONNECTED" /\ emitted[i].roomId = r
    /\ rooms[r].live /\ r \in listeners
    /\ rooms[r].contentFloor \notin {None, emitted[i].mediaId}
    /\ rooms[r].conferenceFloor \notin {None, emitted[i].mediaId}
    /\ rooms[r].previousContentFloors # <<>>
    /\ rooms[r].previousConferenceFloors # <<>>

\* ------------------------------------------------------------- C28
\* The conference floor and its history are as before the step and no
\* CONFERENCE_FLOOR_CHANGED is emitted for the room
ConferenceFloorUntouched(r) ==
  /\ rooms'[r].conferenceFloor = rooms[r].conferenceFloor
  /\ rooms'[r].previousConferenceFloors = rooms[r].previousConferenceFloors
  /\ EmittedFor("CONFERENCE_FLOOR_CHANGED", r) = {}

\* C28: setConferenceFloor(media) with a media that has no video, when no
\* unit of its session or of the user's other sessions has video, leaves the
\* conference floor and its history unchanged and emits no
\* CONFERENCE_FLOOR_CHANGED; when such a unit exists, the floor becomes that
\* unit.
C28_AudioOnlyFloorFallsBackToVideo ==
  [][\A r \in RoomIds, m \in SessionIds :
       (SetConferenceFloor(r, m) /\ ~sessions[m].video)
         => IF userVideoSessions(m) = {}
            THEN ConferenceFloorUntouched(r)
            ELSE rooms'[r].conferenceFloor \in userVideoSessions(m)]_vars

\* ------------------------------------------------------------- C29
\* C29: in every reachable room state, including when a conference floor is
\* set and the history of previous floors is not empty,
\* setConferenceFloor(media) with a media that has video makes that media the
\* conference floor, puts the floor it replaces at the head of the history
\* and emits one CONFERENCE_FLOOR_CHANGED.
C29_VideoMediaTakesConferenceFloor ==
  [][\A r \in RoomIds, m \in SessionIds :
       (SetConferenceFloor(r, m) /\ sessions[m].video)
         => /\ rooms'[r].conferenceFloor = m
            /\ rooms[r].conferenceFloor \notin {None, m}
                 => /\ rooms'[r].previousConferenceFloors # <<>>
                    /\ rooms'[r].previousConferenceFloors[1] = rooms[r].conferenceFloor
            /\ Cardinality(EmittedFor("CONFERENCE_FLOOR_CHANGED", r)) = 1]_vars


\* ---- C30
\* The endpoints the adapter created and has not stopped
Unstopped ==
  {e \in ElementIds : /\ kms.elems[e].made
                      /\ kms.elems[e].type = "WebRtcEndpoint"
                      /\ registered(kms, e)}

\* Some endpoint was the source of a transposition, and every endpoint has
\* been stopped with no call left pending
SourcesStopped ==
  /\ kmsOps = {}
  /\ Unstopped = {}
  /\ \E e \in ElementIds : kms.elems[e].made /\ kms.elems[e].type = "RtpEndpoint"

\* C30: every increment of a host's stream counter made at the creation of a
\* transposer pair is matched by exactly one decrement on the same host once
\* the source is stopped, in whatever order the source and its sinks are
\* stopped: once every endpoint is stopped each counter is back at its value
\* before the transposition, and no counter is ever below that value
C30_StreamCountersBalanced ==
  /\ \A h \in HostIds : kms.streams[h] >= 0
  /\ SourcesStopped => \A h \in HostIds : kms.streams[h] = 0


\* ---- C31
\* C31: a publishAndSubscribe that rejects (invalid type, or the user's
\* publish fails) leaves the room as it was before the call: while no user
\* leaves, once every call has rejected no room holds an MCU session or any
\* other session, and the controller indexes none
C31_RejectedCallLeavesRoom ==
  (ops = {} /\ mediaSessions = {})
    => \A r \in RoomIds : rooms[r].live => rooms[r].mediaSessions = {}


\* ---- C32
\* No call is creating the pipeline of (room, host)
NotBeingCreated(room, host) ==
  ~\E w \in kmsOps : w.pc = "createPipeline" /\ w.room = room /\ w.host = host

\* C32: when the backend fails to create the pipeline of (room, host) the
\* pending-creation entry of the key is removed: it is gone after the failure,
\* and a later createMediaElement for (room, host), made while no call is
\* creating that pipeline and none exists, asks the backend for a new one
C32_FailedCreationIsRetried ==
  [][/\ \A op \in kmsOps :
          KmsPipelineCreated(op, FALSE)
            => pipelinePromise(kms', <<op.room, op.host>>) = {}
     /\ \A room \in RoomIds, host \in HostIds :
          (/\ KmsCreateMediaElement(room, "WebRtcEndpoint", host)
           /\ kms.mediaPipelines[<<room, host>>] = None
           /\ NotBeingCreated(room, host))
            => \E c \in kmsOut' : c.what = "createPipeline"]_vars


\* ---- C33
\* Call i is a connect that has not settled
ConnectPending(i) == \E op \in kmsOps : op.id = i /\ op.call = "connect"

\* C33: every cross-host connect eventually resolves or rejects, the calls
\* that wait for a transposer creation that fails included, on media servers
\* that answer every request
C33_ConnectSettles ==
  \A i \in AdapterCallIds : ConnectPending(i) ~> ~ConnectPending(i)


\* ---- C34
\* A command's adapter call is still awaited
CommandAwaited == dtmf.live /\ dtmf.running # <<>>

\* C34: a complete DTMF code triggers its command exactly once: a further
\* digit or the expiry of the timer while the command's adapter call is still
\* awaited invokes nothing, and the queue never holds more digits than the
\* length of a code
C34_CommandTriggeredOnce ==
  [][/\ dtmf'.live => Len(dtmf'.dtmfQueue) <= DEFAULT_DTMF_CODE_LENGTH
     /\ (CommandAwaited /\ ((\E digit \in DtmfDigits : DtmfDigit(digit)) \/ DtmfTimeout))
          => dtmf'.invoked = dtmf.invoked]_vars


\* ---- C35
\* connect(source, sink) of two registered elements of different hosts
CrossHostConnect(source, sink) ==
  /\ KmsConnect(source, sink)
  /\ registered(kms, source) /\ registered(kms, sink)
  /\ kms.elems[source].host # kms.elems[sink].host

\* The step settles a call as resolved
Resolves == \E c \in kmsOut' : c.what = "resolved"

\* The step sends a connection request to a media server
SendsConnect == \E c \in kmsOut' : c.what = "connect"

\* C35: a cross-host connect resolves only after the backend connections
\* source -> source-side transposer and sink-side transposer -> sink have
\* completed: the step that resolves it is not the one that sends them, and a
\* call that finds no sink-side transposer does not resolve
C35_ResolvesAfterConnections ==
  [][/\ \A source, sink \in ElementIds :
          (CrossHostConnect(source, sink) /\ Resolves)
            => sinkTransposer(kms, source, sink) # None /\ ~SendsConnect
     /\ \A op \in kmsOps :
          KmsTransposersAnswered(op, TRUE) => ~SendsConnect]_vars


\* ---- C36
\* The controller has completed the operation for sink k when the router
\* answers in the step of the request: it neither failed nor is awaited
CompletedAtOnce(what, source, k) ==
  /\ ~connectLookupFails(what, source, k)
  /\ k \notin connectAwaited(what, source, {k})

\* C36: the router answers a connect (disconnect) request with 'connected'
\* ('disconnected') only after the controller has completed the operation for
\* every sink id of the request, and with an error when it fails for a sink
C36_AnsweredAfterEverySink ==
  [][\A what \in {"connect", "disconnect"}, source \in PublishedIds,
        sinks \in SUBSET PublishedIds :
        RouterConnect(what, source, sinks)
          => /\ reply'.ok => \A k \in sinks : CompletedAtOnce(what, source, k)
             /\ (\E k \in sinks : connectLookupFails(what, source, k)) => ~reply'.ok]_vars


\* ---- C37
\* The call has sent its requests and every one of them is answered
LinkDone == link.live /\ link.requests # <<>> /\ link.unanswered = {}

\* C37: a same-host connect or disconnect of kind AUDIO sends exactly one
\* request to the media server, for audio only, kinds VIDEO and CONTENT send
\* exactly one for video and kind ALL one without media filter; the call
\* settles once
C37_OneRequestPerKind ==
  (link.live /\ link.requests # <<>>)
    => /\ link.type = "AUDIO" => link.requests = <<"AUDIO">>
       /\ link.type \in {"VIDEO", "CONTENT"} => link.requests = <<"VIDEO">>
       /\ link.type = "ALL" => link.requests = <<"ALL">>
       /\ link.settled <= 1
       /\ LinkDone => link.settled = 1


\* ---- C38
\* The MCU sessions among the two ends of a connect call
McuEnds(c) == {c[i] : i \in {j \in 1..2 : sessions[c[j]].kind = "MCU"}}

\* C38: no media session is connected to a room's MCU session before its
\* start() and process() have completed, a second publishAndSubscribe that
\* runs while the first is creating the MCU session included, nor to an MCU
\* session whose stop has begun
C38_ConnectedToStartedMcuOnly ==
  \A c \in connected : \A M \in McuEnds(c) : sessions[M].status = "started"


\* ---- C39
\* The rooms that hold user u
RoomsOf(u) == {r \in RoomIds : rooms[r].live /\ u \in rooms[r].users}

\* C39: each user is a member of at most one room, that room is the one its
\* roomId names, and every user held by a room is in the controller's index
\* of users, over any sequence of join and leave calls
C39_UserInItsRoomOnly ==
  \A u \in UserIds :
    /\ Cardinality(RoomsOf(u)) <= 1
    /\ \A r \in RoomsOf(u) : u \in users /\ userObjs[u].roomId = r


\* ---- C40
\* The session is an RTP session in the OFFERER role
RtpOfferer(s) ==
  /\ index.session[s].type = "RtpEndpoint"
  /\ index.session[s].negotiationRole = "OFFERER"

====
